---- MODULE Spec2Model ----
(***************************************************************************)
(* Conversation state machine of the camp-search chatbot.                  *)
(*                                                                         *)
(* Two orchestrators share the repository.                                 *)
(*                                                                         *)
(* The router-based workflow (backend/agents): CampAgent.process_message   *)
(* keeps one CampChatState per session id in session_store and runs the    *)
(* graph classify -> {search | filter | respond} -> respond on it.         *)
(*                                                                         *)
(* The profile-driven orchestrator (backend/app): the chat endpoint keeps  *)
(* one state dict per session id in session_states, hands it to            *)
(* CampAgent.process_message together with the inbound message, and stores *)
(* the dict the workflow returns.  The workflow has one node,              *)
(* _process_request_node, which runs exactly one stage per turn:           *)
(* collect_profile_node until the profile is complete, then filter         *)
(* derivation, database search and table formatting.                       *)
(*                                                                         *)
(* Text is modelled as a sequence of one-character strings, so that        *)
(* int(), float(), str.strip() and str.split(',') are computed character   *)
(* by character, and the de-duplication token f"{step}:{message}" is a     *)
(* real concatenation.                                                     *)
(***************************************************************************)
EXTENDS Integers, Sequences, FiniteSets, TLC

VARIABLES
    session_states,   \* backend/app/api/chat.py: session id -> state dict
    session_store,    \* backend/agents: CampAgent.session_store
    node_call,        \* one direct call of a workflow node: its input and output
    in_flight,        \* chat_endpoint calls between their read and their write
    llm_manager,      \* backend/agents/llm_manager.py: the LLMManager object
    llm_call          \* the last call of a method of the manager

vars == <<session_states, session_store, node_call, in_flight, llm_manager,
          llm_call>>

(***************************************************************************)
(* Bounds of the model.                                                    *)
(***************************************************************************)
\* Messages one session may receive under Spec.
MaxTurns == 6
\* Messages one session may receive under SpecWalk (the scripted client).
MaxWalkTurns == 11

(***************************************************************************)
(* Python values.                                                          *)
(***************************************************************************)
\* Optional[X]: None is the empty tuple, a present value x is <<x>>.
None == <<>>
Some(x) == <<x>>
IsNone(o) == o = <<>>
Get(o) == o[1]

\* The text "None", as f"{None}" renders it.
NoneText == <<"N", "o", "n", "e">>

Digits == <<"0", "1", "2", "3", "4", "5", "6", "7", "8", "9">>
IsDigit(c) == \E i \in 1..10 : Digits[i] = c
DigitVal(c) == (CHOOSE i \in 1..10 : Digits[i] = c) - 1
IsSpace(c) == c = " "

RECURSIVE LStrip(_)
LStrip(t) == IF t # <<>> /\ IsSpace(Head(t)) THEN LStrip(Tail(t)) ELSE t

RECURSIVE RStrip(_)
RStrip(t) ==
    IF t # <<>> /\ IsSpace(t[Len(t)]) THEN RStrip(SubSeq(t, 1, Len(t) - 1)) ELSE t

\* str.strip()
Strip(t) == RStrip(LStrip(t))

\* Value of a run of decimal digits.
RECURSIVE DigitsValue(_)
DigitsValue(t) ==
    IF t = <<>> THEN 0
    ELSE 10 * DigitsValue(SubSeq(t, 1, Len(t) - 1)) + DigitVal(t[Len(t)])

AllDigits(t) == \A i \in 1..Len(t) : IsDigit(t[i])

HasSign(t) == t # <<>> /\ Head(t) \in {"+", "-"}
Unsigned(t) == IF HasSign(t) THEN Tail(t) ELSE t

\* int(text): surrounding blanks are ignored, one optional sign, then one or
\* more decimal digits.  Anything else raises ValueError: [ok |-> FALSE].
ParseInt(t) ==
    LET s == Strip(t)
        d == Unsigned(s)
    IN  IF d # <<>> /\ AllDigits(d)
        THEN [ok |-> TRUE,
              val |-> IF HasSign(s) /\ Head(s) = "-" THEN 0 - DigitsValue(d)
                      ELSE DigitsValue(d)]
        ELSE [ok |-> FALSE, val |-> 0]

\* Position of the first "." of t, or 0.
DotPos(t) ==
    IF \E i \in 1..Len(t) : t[i] = "."
    THEN CHOOSE i \in 1..Len(t) : t[i] = "." /\ \A j \in 1..(i - 1) : t[j] # "."
    ELSE 0

RECURSIVE DropTrailingZeros(_)
DropTrailingZeros(t) ==
    IF t # <<>> /\ t[Len(t)] = "0"
    THEN DropTrailingZeros(SubSeq(t, 1, Len(t) - 1))
    ELSE t

\* A float is kept exactly: sign, whole part and the fraction's digits
\* without trailing zeros (25.0 is whole 25 with the empty fraction).
Float(neg, whole, frac) == [neg |-> neg, whole |-> whole, frac |-> frac]
IsZeroFloat(f) == f.whole = 0 /\ f.frac = <<>>
FloatGtZero(f) == ~f.neg /\ ~IsZeroFloat(f)

\* float(text) on decimal literals: blanks ignored, optional sign, digits
\* with at most one ".", at least one digit.  Anything else raises
\* ValueError.  (Exponents, "inf" and "nan" are outside the message sets.)
ParseFloat(t) ==
    LET s == Strip(t)
        d == Unsigned(s)
        p == DotPos(d)
        w == IF p = 0 THEN d ELSE SubSeq(d, 1, p - 1)
        f == IF p = 0 THEN <<>> ELSE SubSeq(d, p + 1, Len(d))
        neg == HasSign(s) /\ Head(s) = "-"
    IN  IF AllDigits(w) /\ AllDigits(f) /\ Len(w) + Len(f) > 0
        THEN [ok |-> TRUE,
              val |-> Float(neg, DigitsValue(w), DropTrailingZeros(f))]
        ELSE [ok |-> FALSE, val |-> Float(FALSE, 0, <<>>)]

\* str(n) for an integer n.
RECURSIVE NatText(_)
NatText(n) ==
    IF n < 10 THEN <<Digits[n + 1]>>
    ELSE NatText(n \div 10) \o <<Digits[(n % 10) + 1]>>

IntText(n) == IF n < 0 THEN <<"-">> \o NatText(0 - n) ELSE NatText(n)

\* str(f) for a float f: the fraction is never empty ("25.0").
FloatText(f) ==
    (IF f.neg THEN <<"-">> ELSE <<>>) \o NatText(f.whole) \o <<".">>
        \o (IF f.frac = <<>> THEN <<"0">> ELSE f.frac)

\* text.split(','): the pieces between commas, empty pieces included.
RECURSIVE SplitComma(_)
SplitComma(t) ==
    IF \E i \in 1..Len(t) : t[i] = ","
    THEN LET i == CHOOSE k \in 1..Len(t) :
                      t[k] = "," /\ \A j \in 1..(k - 1) : t[j] # ","
         IN  <<SubSeq(t, 1, i - 1)>> \o SplitComma(SubSeq(t, i + 1, Len(t)))
    ELSE <<t>>

(***************************************************************************)
(* Data model: UserProfile, CampChatState, response texts.                 *)
(***************************************************************************)
MinAge == 4
MaxAge == 18
MinGrade == 0
MaxGrade == 12
DefaultAge == 5
DefaultGrade == 0
DefaultDistance == 25
TableRows == 10

\* The profile-collection steps in the order collect_profile_node visits
\* them; the cursor after the last one is None.
StepOrder == <<"name", "child_name", "child_age", "child_grade",
               "interests", "address", "distance">>

\* f"{chat_state.profile_step}"
StepText(step) ==
    CASE step = "name" -> <<"n", "a", "m", "e">>
      [] step = "child_name" -> <<"c", "h", "i", "l", "d", "_", "n", "a", "m", "e">>
      [] step = "child_age" -> <<"c", "h", "i", "l", "d", "_", "a", "g", "e">>
      [] step = "child_grade" ->
            <<"c", "h", "i", "l", "d", "_", "g", "r", "a", "d", "e">>
      [] step = "interests" -> <<"i", "n", "t", "e", "r", "e", "s", "t", "s">>
      [] step = "address" -> <<"a", "d", "d", "r", "e", "s", "s">>
      [] step = "distance" -> <<"d", "i", "s", "t", "a", "n", "c", "e">>
      [] OTHER -> NoneText

\* A response text: the template it was rendered from and the values
\* interpolated into it, in order.  Python None is the kind "None".
Response(kind, args) == [kind |-> kind, args |-> args]
NoResponse == Response("None", <<>>)

\* Only the table's text counts as containing "I found".
ContainsIFoundTableOnly(r) == r.kind = "table"

\* The templates whose text contains "I found".
ContainsIFound(r) == r.kind \in {"found_count", "table"}

\* ', '.join(texts)
RECURSIVE JoinCommaSpace(_)
JoinCommaSpace(ts) ==
    IF ts = <<>> THEN <<>>
    ELSE IF Len(ts) = 1 THEN ts[1]
    ELSE ts[1] \o <<",", " ">> \o JoinCommaSpace(Tail(ts))

\* UserProfile(name="", child_name="", child_age=5, child_grade=0,
\*             interests=[], address="", max_distance_miles=25.0)
DefaultProfile ==
    [name |-> <<>>, child_name |-> <<>>, child_age |-> DefaultAge,
     child_grade |-> DefaultGrade, interests |-> <<>>, address |-> <<>>,
     max_distance_miles |-> Float(FALSE, DefaultDistance, <<>>)]

\* Keys collect_profile_node writes into the state dict that are no field
\* of CampChatState.
NoExtra == [interests_prompted |-> None, prev_profile_step |-> None]

\* The dict process_message creates when it is given no state.
InitialState(session_id) ==
    [session_id |-> session_id,
     messages |-> <<>>,
     current_intent |-> None,
     last_search_results |-> None,
     search_filters |-> None,
     final_response |-> NoResponse,
     needs_profile |-> TRUE,
     profile |-> None,
     profile_step |-> "None",
     last_processed_message |-> None,
     extra |-> NoExtra]

\* CampChatState(**state).dict(): the model ignores keys that are not its
\* fields, so the dict it renders carries none of them.
ChatStateDict(chat_state) == [chat_state EXCEPT !.extra = NoExtra]

\* chat_state.messages[-1].content if chat_state.messages else ""
LastMessage(state) ==
    IF state.messages = <<>> THEN <<>> ELSE state.messages[Len(state.messages)]

\* message_hash = f"{chat_state.profile_step}:{last_message}"
MessageHash(step, last_message) == StepText(step) \o <<":">> \o last_message

\* Mutant: the duplicate check never matches.
IsDuplicateNever(state, message_hash) == FALSE

\* chat_state.last_processed_message == message_hash
IsDuplicate(state, message_hash) ==
    state.last_processed_message = Some(message_hash)

(***************************************************************************)
(* collect_profile_node.  In the step operators cs is the CampChatState    *)
(* built from the state dict; its field extra stands for the extra keys of *)
(* the state dict itself, which the node reads and writes next to cs.      *)
(***************************************************************************)
SetProfile(cs, field, value) ==
    [cs EXCEPT !.profile = Some([Get(cs.profile) EXCEPT ![field] = value])]

Respond(cs, kind, args) == [cs EXCEPT !.final_response = Response(kind, args)]

Advance(cs, step) == [cs EXCEPT !.profile_step = step]

\* elif profile_step == "name"
NameStep(cs, last_message) ==
    IF Get(cs.profile).name = <<>>
    THEN Respond(Advance(SetProfile(cs, "name", last_message), "child_name"),
                 "ask_child_name", <<last_message>>)
    ELSE Respond(cs, "ask_name", <<>>)

\* elif profile_step == "child_name"
ChildNameStep(cs, last_message) ==
    Respond(Advance(SetProfile(cs, "child_name", last_message), "child_age"),
            "ask_age", <<last_message>>)

\* Mutant: an accepted age moves the cursor past the grade step.
ChildAgeStepSkipsGrade(cs, last_message) ==
    LET age == ParseInt(last_message)
    IN  IF ~age.ok THEN Respond(cs, "age_not_a_number", <<>>)
        ELSE IF MinAge <= age.val /\ age.val <= MaxAge
        THEN Respond(Advance(SetProfile(cs, "child_age", age.val), "interests"),
                     "ask_grade", <<Get(cs.profile).child_name>>)
        ELSE Respond(cs, "age_out_of_range", <<>>)

\* elif profile_step == "child_age"
ChildAgeStep(cs, last_message) ==
    LET age == ParseInt(last_message)
    IN  IF ~age.ok THEN Respond(cs, "age_not_a_number", <<>>)
        ELSE IF MinAge <= age.val /\ age.val <= MaxAge
        THEN Respond(Advance(SetProfile(cs, "child_age", age.val), "child_grade"),
                     "ask_grade", <<Get(cs.profile).child_name>>)
        ELSE Respond(cs, "age_out_of_range", <<>>)

\* elif profile_step == "child_grade"
ChildGradeStep(cs, last_message) ==
    LET grade == ParseInt(last_message)
    IN  IF ~grade.ok THEN Respond(cs, "grade_not_a_number", <<>>)
        ELSE IF MinGrade <= grade.val /\ grade.val <= MaxGrade
        THEN Respond(Advance(SetProfile(cs, "child_grade", grade.val), "interests"),
                     "ask_interests", <<Get(cs.profile).child_name>>)
        ELSE Respond(cs, "grade_out_of_range", <<>>)

\* [interest.strip() for interest in last_message.split(',') if interest.strip()]
InterestTokens(last_message) ==
    LET pieces == SplitComma(last_message)
    IN  [i \in 1..Len(SelectSeq(pieces, LAMBDA t : Strip(t) # <<>>)) |->
            Strip(SelectSeq(pieces, LAMBDA t : Strip(t) # <<>>)[i])]

\* The selection counted from 0: token n selects categories[n] of Python.
SelectCategoryFromZero(interest, categories) ==
    LET num == ParseInt(interest)
    IN  IF num.ok /\ 0 <= num.val /\ num.val < Len(categories)
        THEN categories[num.val + 1]
        ELSE interest

\* A token that is an integer n with 1 <= n <= len(categories) selects the
\* n-th category; every other token is kept as typed.
SelectCategory(interest, categories) ==
    LET num == ParseInt(interest)
    IN  IF num.ok /\ 1 <= num.val /\ num.val <= Len(categories)
        THEN categories[num.val]
        ELSE interest

ParseInterests(last_message, categories) ==
    LET interests_list == InterestTokens(last_message)
    IN  IF categories # <<>>
        THEN [i \in 1..Len(interests_list) |->
                SelectCategory(interests_list[i], categories)]
        ELSE interests_list

\* The prompt of the first visit: the numbered category menu when the
\* category service returned categories, the free-text question otherwise.
InterestsPrompt(cs, categories) ==
    IF categories # <<>>
    THEN Respond(cs, "interests_menu", <<Get(cs.profile).child_name>> \o categories)
    ELSE Respond(cs, "ask_interests", <<Get(cs.profile).child_name>>)

\* The flag read as set whatever the dict holds.
InterestsPromptedAlways(cs) == TRUE

\* state.get('interests_prompted', False)
InterestsPrompted(cs) ==
    IF IsNone(cs.extra.interests_prompted) THEN FALSE
    ELSE Get(cs.extra.interests_prompted)

SetInterestsPrompted(cs, flag) ==
    [cs EXCEPT !.extra.interests_prompted = Some(flag)]

\* elif profile_step == "interests"
InterestsStep(cs, last_message, categories) ==
    IF ~InterestsPrompted(cs)
    THEN SetInterestsPrompted(InterestsPrompt(cs, categories), TRUE)
    ELSE IF last_message # <<>> /\ Strip(last_message) # <<>>
    THEN SetInterestsPrompted(
             Respond(Advance(SetProfile(cs, "interests",
                                        ParseInterests(last_message, categories)),
                             "address"),
                     "ask_address", <<>>),
             FALSE)
    ELSE [cs EXCEPT !.final_response = NoResponse]

\* elif profile_step == "address"
AddressStep(cs, last_message) ==
    Respond(Advance(SetProfile(cs, "address", last_message), "distance"),
            "ask_distance", <<>>)

\* The closing summary of the collected profile.
Summary(profile) ==
    <<profile.child_name, profile.name, profile.child_name,
      IntText(profile.child_age), IntText(profile.child_grade),
      JoinCommaSpace(profile.interests), profile.address,
      FloatText(profile.max_distance_miles), profile.child_name>>

\* The distance step storing every number it can read.
DistanceStepAnyNumber(cs, last_message) ==
    LET distance == ParseFloat(last_message)
        done == Advance(SetProfile(cs, "max_distance_miles", distance.val), "None")
    IN  IF ~distance.ok THEN Respond(cs, "distance_not_a_number", <<>>)
        ELSE Respond(done, "summary", Summary(Get(done.profile)))

\* elif profile_step == "distance"
DistanceStep(cs, last_message) ==
    LET distance == ParseFloat(last_message)
        done == Advance(SetProfile(cs, "max_distance_miles", distance.val), "None")
    IN  IF ~distance.ok THEN Respond(cs, "distance_not_a_number", <<>>)
        ELSE IF FloatGtZero(distance.val)
        THEN Respond(done, "summary", Summary(Get(done.profile)))
        ELSE Respond(cs, "distance_not_positive", <<>>)

\* The if/elif chain over profile_step; no branch is taken for None.
ProfileStep(cs, last_message, categories) ==
    CASE cs.profile_step = "name" -> NameStep(cs, last_message)
      [] cs.profile_step = "child_name" -> ChildNameStep(cs, last_message)
      [] cs.profile_step = "child_age" -> ChildAgeStep(cs, last_message)
      [] cs.profile_step = "child_grade" -> ChildGradeStep(cs, last_message)
      [] cs.profile_step = "interests" -> InterestsStep(cs, last_message, categories)
      [] cs.profile_step = "address" -> AddressStep(cs, last_message)
      [] cs.profile_step = "distance" -> DistanceStep(cs, last_message)
      [] OTHER -> cs

\* Mutant: the message that opens the session is taken as the name.
InitializeProfileConsuming(cs) ==
    NameStep([cs EXCEPT !.profile = Some(DefaultProfile), !.profile_step = "name"],
             LastMessage(cs))

\* The first turn of a session: the profile is created and the welcome is
\* the answer; the message is not read.
InitializeProfile(cs) ==
    Respond(Advance([cs EXCEPT !.profile = Some(DefaultProfile)], "name"),
            "welcome", <<>>)

\* One call of the node.  returned is the dict the node returns,
\* chat_state.dict(); state is the dict it was given, as the node leaves it.
CollectProfileNode(state, categories) ==
    LET last_message == LastMessage(state)
        message_hash == MessageHash(state.profile_step, last_message)
        marked == [state EXCEPT !.last_processed_message = Some(message_hash)]
        cs == ProfileStep(marked, last_message, categories)
    IN  IF IsNone(state.profile)
        THEN [returned |-> ChatStateDict(InitializeProfile(state)), state |-> state]
        ELSE IF IsDuplicate(state, message_hash)
        THEN [returned |-> ChatStateDict(state), state |-> state]
        ELSE [returned |-> ChatStateDict(cs),
              state |-> [state EXCEPT
                            !.extra = [cs.extra EXCEPT
                                !.prev_profile_step = Some(cs.profile_step)]]]

(***************************************************************************)
(* The stages after profile collection.                                    *)
(***************************************************************************)
\* CampSearchFilters(min_grade=..., max_grade=..., address=...,
\*                   max_driving_distance_miles=..., category=None).dict()
ProfileFilters(profile) ==
    [category |-> None,
     min_grade |-> Some(profile.child_grade),
     max_grade |-> Some(profile.child_grade),
     min_price |-> None,
     max_price |-> None,
     start_date |-> None,
     end_date |-> None,
     address |-> Some(profile.address),
     max_driving_distance_miles |-> Some(profile.max_distance_miles)]

GenerateSqlQueryNode(state) ==
    IF IsNone(state.profile)
    THEN ChatStateDict(Respond(state, "no_profile", <<>>))
    ELSE LET profile == Get(state.profile)
         IN  ChatStateDict(
                 Respond([state EXCEPT
                             !.search_filters = Some(ProfileFilters(profile))],
                         "preparing",
                         <<profile.child_name,
                           FloatText(profile.max_distance_miles),
                           profile.address>>))

\* camps is what supabase_client.search_camps returns under 'camps' (the
\* empty list when the search fails).
SearchDatabaseNode(state, camps) ==
    IF IsNone(state.search_filters)
    THEN ChatStateDict(Respond(state, "no_filters", <<>>))
    ELSE LET found == [state EXCEPT !.last_search_results = Some(camps)]
             child_name == Get(state.profile).child_name
         IN  IF camps # <<>>
             THEN ChatStateDict(Respond(found, "found_count",
                                        <<IntText(Len(camps)), child_name>>))
             ELSE ChatStateDict(Respond(found, "none_found", <<child_name>>))

\* results[:10]
FirstRows(results) ==
    SubSeq(results, 1, IF Len(results) < TableRows THEN Len(results) ELSE TableRows)

FormatTableNode(state) ==
    LET results == IF IsNone(state.last_search_results) THEN <<>>
                   ELSE Get(state.last_search_results)
        child_name == Get(state.profile).child_name
    IN  IF results = <<>>
        THEN ChatStateDict(Respond(state, "table_none", <<child_name>>))
        ELSE ChatStateDict(Respond(state, "table",
                                   <<IntText(Len(results)), child_name>>
                                       \o FirstRows(results)))

(***************************************************************************)
(* CampAgent.                                                              *)
(***************************************************************************)
\* _is_profile_complete without its test of profile_step.
IsProfileCompleteFieldsOnly(chat_state) ==
    /\ ~IsNone(chat_state.profile)
    /\ LET profile == Get(chat_state.profile)
       IN  /\ profile.name # <<>>
           /\ profile.child_name # <<>>
           /\ MinAge <= profile.child_age /\ profile.child_age <= MaxAge
           /\ MinGrade <= profile.child_grade /\ profile.child_grade <= MaxGrade
           /\ profile.interests # <<>>
           /\ profile.address # <<>>
           /\ FloatGtZero(profile.max_distance_miles)

\* CampAgent._is_profile_complete
IsProfileComplete(chat_state) ==
    /\ ~IsNone(chat_state.profile)
    /\ LET profile == Get(chat_state.profile)
       IN  /\ profile.name # <<>>
           /\ profile.child_name # <<>>
           /\ MinAge <= profile.child_age /\ profile.child_age <= MaxAge
           /\ MinGrade <= profile.child_grade /\ profile.child_grade <= MaxGrade
           /\ profile.interests # <<>>
           /\ profile.address # <<>>
           /\ FloatGtZero(profile.max_distance_miles)
           /\ chat_state.profile_step = "None"

\* CampAgent._process_request_node: the one stage this turn runs.
ProcessRequestNode(state, categories, camps) ==
    IF ~IsProfileComplete(state)
    THEN CollectProfileNode(state, categories).returned
    ELSE IF IsNone(state.search_filters)
    THEN GenerateSqlQueryNode(state)
    ELSE IF IsNone(state.last_search_results) \/ Get(state.last_search_results) = <<>>
    THEN SearchDatabaseNode(state, camps)
    ELSE IF state.final_response = NoResponse \/ ~ContainsIFound(state.final_response)
    THEN FormatTableNode(state)
    ELSE ChatStateDict(state)

\* CampAgent.process_message: state is None (as Optional) for a new session.
\* The graph has the single node process_request and its state schema is
\* dict, so the dict the node returns is the whole result of the run.
ProcessMessage(message, session_id, state, categories, camps) ==
    LET start == IF IsNone(state) THEN InitialState(session_id) ELSE Get(state)
        appended == [start EXCEPT !.messages = Append(@, message)]
    IN  ProcessRequestNode(appended, categories, camps)

(***************************************************************************)
(* Inputs.                                                                 *)
(***************************************************************************)
SessionIds == {"s1"}

TextAl == <<"A", "l">>
Text10 == <<"1", "0">>
Text25 == <<"2", "5">>
Text1x == <<"1", ",", "x">>

\* The messages a user sends under Spec: the empty text, a word, a number
\* that is a valid age, grade and distance, a number that is neither a valid
\* age nor a valid grade, and a comma-separated selection.
Msgs == {<<>>, TextAl, Text10, Text25, Text1x}

TextHi == <<"H", "i">>
TextAlex == <<"A", "l", "e", "x">>
TextSam == <<"S", "a", "m">>
Text5 == <<"5">>
TextSoccer == <<"s", "o", "c", "c", "e", "r">>
TextArt == <<"a", "r", "t">>
TextSoccerArt == TextSoccer \o <<",", " ">> \o TextArt
TextMainSt ==
    <<"1", " ", "M", "a", "i", "n", " ", "S", "t", ",", " ",
      "A", "u", "s", "t", "i", "n", ",", " ", "T", "X">>

\* The full profile walk.
Script ==
    <<TextHi, TextAlex, TextSam, Text10, Text5, TextSoccerArt, TextMainSt, Text25>>

\* What get_unique_categories returns: the sorted category names, or the
\* empty list when there are none or the query fails.
CategoryResults == {<<>>, <<TextArt, TextSoccer>>}

\* What search_camps returns under 'camps'.
SearchResults == {<<>>, <<<<"A">>>>, <<<<"A">>, <<"B">>>>}

(***************************************************************************)
(* The chat endpoint.                                                      *)
(***************************************************************************)
\* The calls of chat_endpoint that can be under way, and none of them begun.
MaxRequests == 3
RequestIds == 1..MaxRequests
NoRequests == [r \in RequestIds |-> None]

\* LLMManager.__init__: no instances, not initialized.
NewManager == [llm_instances |-> {}, initialized |-> FALSE]

\* No method of the manager has been called.
NoManagerCall ==
    [op |-> "none", provider |-> "none", environ |-> {}, before |-> NewManager,
     raised |-> "none", value |-> <<>>]

\* No node has been called directly.
NoCall == [node |-> "none", input |-> None, reply |-> None, output |-> None]

Init ==
    /\ session_states = [sid \in SessionIds |-> None]
    /\ session_store = [sid \in SessionIds |-> None]
    /\ node_call = NoCall
    /\ in_flight = NoRequests
    /\ llm_manager = NewManager
    /\ llm_call = NoManagerCall

\* The messages session sid has received.
History(sid) ==
    IF IsNone(session_states[sid]) THEN <<>> ELSE Get(session_states[sid]).messages

\* chat_endpoint keeping one state for all sessions.
ChatEndpointOneSlot(session_id, message, categories, camps) ==
    /\ session_states' =
        [sid \in DOMAIN session_states |->
            Some(ProcessMessage(message, session_id, session_states[session_id],
                                categories, camps))]
    /\ UNCHANGED <<session_store, node_call, in_flight, llm_manager, llm_call>>

\* chat_endpoint: read the session's state, process the message, store the
\* state that comes back.
ChatEndpoint(session_id, message, categories, camps) ==
    /\ session_states' =
        [session_states EXCEPT
            ![session_id] = Some(ProcessMessage(message, session_id,
                                                session_states[session_id],
                                                categories, camps))]
    /\ UNCHANGED <<session_store, node_call, in_flight, llm_manager, llm_call>>

\* A user who sends any message.
UserTurn ==
    \E sid \in SessionIds, m \in Msgs, categories \in CategoryResults,
       camps \in SearchResults :
        /\ Len(History(sid)) < MaxTurns
        /\ ChatEndpoint(sid, m, categories, camps)

Next == UserTurn

Spec == Init /\ [][Next]_vars

\* The scripted client: it sends the messages of Script in order, and the
\* transport may deliver the message just sent once more.
ScriptIndex(m) == CHOOSE i \in 1..Len(Script) : Script[i] = m

WalkOffer(history) ==
    IF history = <<>> THEN {Script[1]}
    ELSE LET last == history[Len(history)]
         IN  {last} \cup (IF ScriptIndex(last) < Len(Script)
                          THEN {Script[ScriptIndex(last) + 1]} ELSE {})

WalkTurn ==
    \E sid \in SessionIds, categories \in CategoryResults, camps \in SearchResults :
        \E m \in WalkOffer(History(sid)) :
            /\ Len(History(sid)) < MaxWalkTurns
            /\ ChatEndpoint(sid, m, categories, camps)

WalkNext == WalkTurn

SpecWalk == Init /\ [][WalkNext]_vars

(***************************************************************************)
(* Vocabulary of the properties.                                           *)
(***************************************************************************)
Started(sid) == ~IsNone(session_states[sid])
StateOf(sid) == Get(session_states[sid])

\* The collection cursor of a state dict: "none" before the profile exists,
\* "complete" when the profile exists and profile_step is None.
Cursor(state) ==
    IF IsNone(state.profile) THEN "none"
    ELSE IF state.profile_step = "None" THEN "complete"
    ELSE state.profile_step

CursorOrder == StepOrder \o <<"complete">>

CursorIndex(c) == CHOOSE i \in 1..Len(CursorOrder) : CursorOrder[i] = c

\* c2 is the step right after c1.
IsSuccessor(c1, c2) ==
    /\ c1 \in {CursorOrder[i] : i \in 1..(Len(CursorOrder) - 1)}
    /\ c2 = CursorOrder[CursorIndex(c1) + 1]

\* One more turn of the session whose stored state is state.
Turn(state, m, categories, camps) ==
    ProcessMessage(m, state.session_id, Some(state), categories, camps)

IsBlank(m) == Strip(m) = <<>>

(***************************************************************************)
(* C1.  The full profile walk: after the eight messages of Script the      *)
(* cursor is complete and the profile holds the seven answers; the fifth   *)
(* message brings the cursor to interests, so that the three messages left *)
(* answer interests, address and distance.                                 *)
(***************************************************************************)
WalkProfile ==
    [name |-> TextAlex, child_name |-> TextSam, child_age |-> 10,
     child_grade |-> 5, interests |-> <<TextSoccer, TextArt>>,
     address |-> TextMainSt, max_distance_miles |-> Float(FALSE, 25, <<>>)]

C1_FullWalkCompletes ==
    \A sid \in SessionIds :
        /\ History(sid) = SubSeq(Script, 1, 5) => Cursor(StateOf(sid)) = "interests"
        /\ History(sid) = Script =>
              /\ Cursor(StateOf(sid)) = "complete"
              /\ StateOf(sid).profile = Some(WalkProfile)

(***************************************************************************)
(* C2.  Cursor monotonicity: a turn of a session whose profile exists      *)
(* leaves the cursor where it is or moves it to the next step of the       *)
(* order; it never moves back and never skips a step.                      *)
(***************************************************************************)
C2_CursorStep ==
    \A sid \in SessionIds :
        Started(sid) =>
            LET before == Cursor(StateOf(sid))
                after == Cursor(Get(session_states'[sid]))
            IN  after = before \/ IsSuccessor(before, after)

C2_CursorForwardOneStep == [][C2_CursorStep]_vars

\* The cursor has moved four steps and then stayed put for one turn.
C2_Witness ==
    \E sid \in SessionIds :
        /\ Started(sid)
        /\ Cursor(StateOf(sid)) = "interests"
        /\ Len(History(sid)) = 6

(***************************************************************************)
(* C3.  Idempotent replay: when a message leaves the cursor where it was,  *)
(* processing the same message again changes neither cursor, profile,      *)
(* de-duplication token nor response.                                      *)
(***************************************************************************)
C3_ReplayIdempotent ==
    \A sid \in SessionIds :
        Started(sid) =>
            \A m \in Msgs, c1 \in CategoryResults, c2 \in CategoryResults,
               camps \in SearchResults :
                LET once == Turn(StateOf(sid), m, c1, camps)
                    twice == Turn(once, m, c2, camps)
                IN  Cursor(once) = Cursor(StateOf(sid)) =>
                        /\ twice.profile_step = once.profile_step
                        /\ twice.profile = once.profile
                        /\ twice.last_processed_message = once.last_processed_message
                        /\ twice.final_response = once.final_response

\* Messages four and five are the same text, both met the age step, and the
\* token is that of the age step.
C3_Witness ==
    \E sid \in SessionIds :
        /\ Started(sid)
        /\ Len(History(sid)) = 5
        /\ History(sid)[4] = History(sid)[5]
        /\ Cursor(StateOf(sid)) = "child_age"
        /\ StateOf(sid).last_processed_message =
              Some(MessageHash("child_age", History(sid)[5]))

(***************************************************************************)
(* C4.  At-least-once delivery: in every state, a session's state before   *)
(* its first turn included, delivering one message twice in a row leaves   *)
(* cursor and profile after the second delivery as they were after the     *)
(* first.                                                                  *)
(***************************************************************************)
C4_RedeliveryNotConsumed ==
    \A sid \in SessionIds :
        \A m \in Msgs, c1 \in CategoryResults, c2 \in CategoryResults,
           camps \in SearchResults :
            LET once == ProcessMessage(m, sid, session_states[sid], c1, camps)
                twice == Turn(once, m, c2, camps)
            IN  /\ Cursor(twice) = Cursor(once)
                /\ twice.profile = once.profile

(***************************************************************************)
(* The cursor of a session that started without a state never passes       *)
(* interests: the dict the node returns carries no interests_prompted key, *)
(* so every turn at the interests step is a first visit.  Statements about *)
(* states whose cursor is address, distance or complete therefore have no  *)
(* reachable instance under Spec and SpecWalk.                             *)
(***************************************************************************)
CursorStopsAtInterests ==
    \A sid \in SessionIds :
        Started(sid) =>
            Cursor(StateOf(sid)) \in
                {"name", "child_name", "child_age", "child_grade", "interests"}

(***************************************************************************)
(* C6.  A message that fails the active step's acceptance rule leaves      *)
(* cursor and profile unchanged and is answered by a corrective prompt of  *)
(* that step.                                                              *)
(***************************************************************************)
\* The acceptance rules: non-empty text at name, child_name and address, an
\* integer in [4,18] at child_age, an integer in [0,12] at child_grade, a
\* number greater than 0 at distance.
FailsAcceptance(step, m) ==
    CASE step \in {"name", "child_name", "address"} -> m = <<>>
      [] step = "child_age" ->
            ~ParseInt(m).ok \/ ParseInt(m).val < MinAge \/ ParseInt(m).val > MaxAge
      [] step = "child_grade" ->
            ~ParseInt(m).ok \/ ParseInt(m).val < MinGrade
                \/ ParseInt(m).val > MaxGrade
      [] step = "distance" -> ~ParseFloat(m).ok \/ ~FloatGtZero(ParseFloat(m).val)
      [] OTHER -> FALSE

CorrectivePrompts(step) ==
    CASE step = "name" -> {"ask_name", "welcome"}
      [] step = "child_name" -> {"ask_child_name"}
      [] step = "child_age" -> {"ask_age", "age_not_a_number", "age_out_of_range"}
      [] step = "child_grade" ->
            {"ask_grade", "grade_not_a_number", "grade_out_of_range"}
      [] step = "address" -> {"ask_address"}
      [] step = "distance" ->
            {"ask_distance", "distance_not_a_number", "distance_not_positive"}
      [] OTHER -> {}

C6_InvalidInputKeepsCursor ==
    \A sid \in SessionIds :
        Started(sid) =>
            \A m \in Msgs, categories \in CategoryResults, camps \in SearchResults :
                LET state == StateOf(sid)
                    after == Turn(state, m, categories, camps)
                IN  FailsAcceptance(Cursor(state), m) =>
                        /\ Cursor(after) = Cursor(state)
                        /\ after.profile = state.profile
                        /\ after.final_response.kind
                              \in CorrectivePrompts(Cursor(state))

(***************************************************************************)
(* C7.  The first turn of a session creates the default profile, puts the  *)
(* cursor at name and answers with the welcome; the message is stored in   *)
(* no profile field and is not marked as processed.                        *)
(***************************************************************************)
C7_FirstTurnNotConsumed ==
    \A sid \in SessionIds :
        (Started(sid) /\ Len(History(sid)) = 1) =>
            /\ StateOf(sid).profile = Some(DefaultProfile)
            /\ StateOf(sid).profile_step = "name"
            /\ StateOf(sid).final_response = Response("welcome", <<>>)
            /\ StateOf(sid).last_processed_message = None

\* A first turn whose message is a non-empty text.
C7_Witness ==
    \E sid \in SessionIds :
        /\ Started(sid)
        /\ History(sid) = <<TextAl>>
        /\ Get(StateOf(sid).profile).name = <<>>
        /\ Cursor(StateOf(sid)) = "name"

(***************************************************************************)
(* C8.  Two-phase interests step: once the category menu has been shown,   *)
(* the session's stored state carries the prompted flag, and the next      *)
(* non-blank message (a redelivery of the last one aside) is parsed as the *)
(* interests answer: it is stored, the cursor moves to address and the     *)
(* menu is not shown again.                                                *)
(***************************************************************************)
MenuShown(state) ==
    /\ Cursor(state) = "interests"
    /\ state.final_response.kind = "interests_menu"

C8_PromptedPersists ==
    \A sid \in SessionIds :
        (Started(sid) /\ MenuShown(StateOf(sid))) =>
            /\ InterestsPrompted(StateOf(sid))
            /\ \A m \in Msgs, categories \in CategoryResults, camps \in SearchResults :
                  LET after == Turn(StateOf(sid), m, categories, camps)
                  IN  (~IsBlank(m) /\ m # LastMessage(StateOf(sid))) =>
                          /\ Cursor(after) = "address"
                          /\ Get(after.profile).interests
                                = ParseInterests(m, categories)
                          /\ after.final_response.kind # "interests_menu"

(***************************************************************************)
(* C9.  After a valid grade answer has moved the cursor to interests, the  *)
(* next non-blank message is consumed as the interests answer in that      *)
(* turn: the cursor moves to address and the response asks for the         *)
(* address.                                                                *)
(***************************************************************************)
GradeJustAccepted(state) ==
    /\ Cursor(state) = "interests"
    /\ state.last_processed_message =
          Some(MessageHash("child_grade", LastMessage(state)))

C9_AnswerAfterGrade ==
    \A sid \in SessionIds :
        (Started(sid) /\ GradeJustAccepted(StateOf(sid))) =>
            \A m \in Msgs, categories \in CategoryResults, camps \in SearchResults :
                LET after == Turn(StateOf(sid), m, categories, camps)
                IN  ~IsBlank(m) =>
                        /\ Cursor(after) = "address"
                        /\ after.final_response = Response("ask_address", <<>>)

(***************************************************************************)
(* C10.  When the category service returns a non-empty list, the turn that *)
(* accepts a valid grade answer responds with the numbered category menu.  *)
(***************************************************************************)
C10_MenuOnEntry ==
    \A sid \in SessionIds :
        (Started(sid) /\ Cursor(StateOf(sid)) = "child_grade") =>
            \A m \in Msgs, categories \in CategoryResults, camps \in SearchResults :
                LET after == Turn(StateOf(sid), m, categories, camps)
                IN  (categories # <<>> /\ Cursor(after) = "interests") =>
                        after.final_response =
                            Response("interests_menu",
                                     <<Get(after.profile).child_name>> \o categories)

(***************************************************************************)
(***************************************************************************)
(* The router-based workflow, backend/agents/camp_agent_dynamic.py.        *)
(***************************************************************************)
(***************************************************************************)

(***************************************************************************)
(* More Python text operations.                                            *)
(***************************************************************************)
UpperLetters == <<"A", "B", "C", "D", "E", "F", "G", "H", "I", "J", "K", "L", "M",
                  "N", "O", "P", "Q", "R", "S", "T", "U", "V", "W", "X", "Y", "Z">>
LowerLetters == <<"a", "b", "c", "d", "e", "f", "g", "h", "i", "j", "k", "l", "m",
                  "n", "o", "p", "q", "r", "s", "t", "u", "v", "w", "x", "y", "z">>

LowerChar(c) ==
    IF \E i \in 1..26 : UpperLetters[i] = c
    THEN LowerLetters[CHOOSE i \in 1..26 : UpperLetters[i] = c]
    ELSE c

\* str.lower()
Lower(t) == [i \in 1..Len(t) |-> LowerChar(t[i])]

\* needle in haystack
Contains(needle, haystack) ==
    \E i \in 0..(Len(haystack) - Len(needle)) :
        SubSeq(haystack, i + 1, i + Len(needle)) = needle

\* x or ""  for an Optional text
OrEmpty(o) == IF IsNone(o) THEN <<>> ELSE Get(o)

(***************************************************************************)
(* JSON values as json.loads returns them.  A dict is a function from its  *)
(* keys to JSON values; the elements of a list are never looked at.        *)
(***************************************************************************)
JNull == [tag |-> "null"]
JStr(t) == [tag |-> "str", v |-> t]
JInt(n) == [tag |-> "int", v |-> n]
JFloat(f) == [tag |-> "float", v |-> f]
JBool(b) == [tag |-> "bool", v |-> b]
JList(n) == [tag |-> "list", v |-> n]
JDict(f) == [tag |-> "dict", v |-> f]
EmptyDict == JDict([key \in {} |-> JNull])

\* Python truthiness: bool(x)
Truthy(j) ==
    CASE j.tag = "null" -> FALSE
      [] j.tag = "str" -> j.v # <<>>
      [] j.tag = "int" -> j.v # 0
      [] j.tag = "float" -> ~IsZeroFloat(j.v)
      [] j.tag = "bool" -> j.v
      [] j.tag = "list" -> j.v # 0
      [] j.tag = "dict" -> DOMAIN j.v # {}

\* d.get(key, default); on a value that is not a dict the attribute lookup
\* raises AttributeError.
HasGet(j) == j.tag = "dict"
DictGet(d, key, default) == IF key \in DOMAIN d.v THEN d.v[key] ELSE default

\* int(x): [ok, val]; ok is FALSE where Python raises ValueError or TypeError.
PyInt(j) ==
    CASE j.tag = "int" -> [ok |-> TRUE, val |-> j.v]
      [] j.tag = "bool" -> [ok |-> TRUE, val |-> IF j.v THEN 1 ELSE 0]
      [] j.tag = "float" -> [ok |-> TRUE,
                             val |-> IF j.v.neg THEN 0 - j.v.whole ELSE j.v.whole]
      [] j.tag = "str" -> ParseInt(j.v)
      [] OTHER -> [ok |-> FALSE, val |-> 0]

Max(a, b) == IF a >= b THEN a ELSE b

(***************************************************************************)
(* What llm.invoke gives the classifier: the call raises, or it returns a  *)
(* content.  A content is a sequence of tokens: the code-fence markers     *)
(* ```json and ```, white space, prose, and the serialisation of one JSON  *)
(* value.                                                                  *)
(***************************************************************************)
FenceJson == [tok |-> "fence_json", doc |-> JNull]
Fence == [tok |-> "fence", doc |-> JNull]
Ws == [tok |-> "ws", doc |-> JNull]
Prose == [tok |-> "prose", doc |-> JNull]
Doc(j) == [tok |-> "doc", doc |-> j]

LlmRaises == [raises |-> TRUE, content |-> <<>>]
LlmContent(c) == [raises |-> FALSE, content |-> c]

RECURSIVE LStripWs(_)
LStripWs(c) == IF c # <<>> /\ Head(c).tok = "ws" THEN LStripWs(Tail(c)) ELSE c

RECURSIVE RStripWs(_)
RStripWs(c) ==
    IF c # <<>> /\ c[Len(c)].tok = "ws" THEN RStripWs(SubSeq(c, 1, Len(c) - 1)) ELSE c

\* content.strip()
StripWs(c) == RStripWs(LStripWs(c))

\* if content.startswith("```json"): content = content[7:]
DropFenceJson(c) ==
    IF c # <<>> /\ Head(c).tok = "fence_json" THEN Tail(c) ELSE c

\* if content.startswith("```"): content = content[3:]
\* (of a second ```json marker the letters json remain)
DropLeadingFence(c) ==
    IF c # <<>> /\ Head(c).tok = "fence" THEN Tail(c)
    ELSE IF c # <<>> /\ Head(c).tok = "fence_json" THEN <<Prose>> \o Tail(c)
    ELSE c

\* if content.endswith("```"): content = content[:-3]
DropTrailingFence(c) ==
    IF c # <<>> /\ c[Len(c)].tok = "fence" THEN SubSeq(c, 1, Len(c) - 1) ELSE c

CleanContent(c) ==
    StripWs(DropTrailingFence(DropLeadingFence(DropFenceJson(StripWs(c)))))

\* json.loads(content): [ok, val]; white space around the one value is
\* allowed, anything else raises.
JsonLoads(c) ==
    LET inner == StripWs(c)
    IN  IF Len(inner) = 1 /\ inner[1].tok = "doc"
        THEN [ok |-> TRUE, val |-> inner[1].doc]
        ELSE [ok |-> FALSE, val |-> JNull]

\* Line 101 with the default intent search.
DefaultIntentDataSearch ==
    JDict([intent |-> JStr(<<"s", "e", "a", "r", "c", "h">>),
           search_criteria |-> EmptyDict])

\* Lines 87-101: the parsed reply, or the default when parsing raises.
DefaultIntentData ==
    JDict([intent |-> JStr(<<"g", "e", "n", "e", "r", "a", "l">>),
           search_criteria |-> EmptyDict])

IntentData(c) ==
    LET parsed == JsonLoads(CleanContent(c))
    IN  IF parsed.ok THEN parsed.val ELSE DefaultIntentData

(***************************************************************************)
(* The conversation state of the router-based workflow and the records it  *)
(* holds.                                                                  *)
(***************************************************************************)
TextSearch == <<"s", "e", "a", "r", "c", "h">>
TextFilter == <<"f", "i", "l", "t", "e", "r">>
TextGeneral == <<"g", "e", "n", "e", "r", "a", "l">>

\* search_filters = {}: a dict is modelled by its six possible keys, None
\* for a key the dict does not have.
EmptyFilters ==
    [category |-> None, city |-> None, state |-> None, location |-> None,
     min_grade |-> None, max_grade |-> None]

\* bool(x) of a text a filter dict holds.
TruthyText(o) == ~IsNone(o) /\ Get(o) # <<>>

\* not chat_state.search_filters: the dict is None or has no key.
NoFiltersSet(search_filters) ==
    IsNone(search_filters) \/ Get(search_filters) = EmptyFilters

\* bool(chat_state.last_search_results)
HasCachedResults(state) ==
    ~IsNone(state.last_search_results) /\ Get(state.last_search_results) # <<>>

\* CampChatState(messages=[HumanMessage(content=message)], session_id=...)
NewChatState(message, session_id) ==
    [messages |-> <<message>>,
     session_id |-> session_id,
     current_intent |-> None,
     search_filters |-> None,
     last_search_results |-> None,
     final_response |-> NoResponse]

(***************************************************************************)
(* classify_intent_node.                                                   *)
(***************************************************************************)
\* Lines 124-132 with the state taken as split leaves it.
LocationFiltersUntrimmed(filters, location) ==
    IF \E i \in 1..Len(location) : location[i] = ","
    THEN LET parts == SplitComma(location)
         IN  [filters EXCEPT !.city = Some(Strip(parts[1])),
                             !.state = Some(parts[2])]
    ELSE [filters EXCEPT !.location = Some(Strip(location))]

\* Lines 124-132: the keys a truthy text location sets.
LocationFilters(filters, location) ==
    IF \E i \in 1..Len(location) : location[i] = ","
    THEN LET parts == SplitComma(location)
             with_city == [filters EXCEPT !.city = Some(Strip(parts[1]))]
         IN  IF Len(parts) > 1
             THEN [with_city EXCEPT !.state = Some(Strip(parts[2]))]
             ELSE with_city
    ELSE [filters EXCEPT !.location = Some(Strip(location))]

\* Lines 135-142: the keys a truthy age sets; nothing when int() raises.
AgeFilters(filters, age) ==
    LET parsed == PyInt(age)
        grade == Max(0, parsed.val - 5)
    IN  IF parsed.ok
        THEN [filters EXCEPT !.min_grade = Some(grade),
                             !.max_grade = Some(grade + 2)]
        ELSE filters

\* A value stored where a text is expected that is no str (a number, a
\* list, true): it has none of the methods of str.
NotText == <<"<not a str>">>

\* Line 120: the activity is stored as it is, whatever its type.
CategoryValue(activity) ==
    IF activity.tag = "str" THEN activity.v ELSE NotText

\* Lines 116-142: [ok, filters]; ok is FALSE where the extraction raises
\* (criteria that have no get, a truthy location that is not text).
ExtractFilters(intent_data) ==
    LET criteria == DictGet(intent_data, "search_criteria", EmptyDict)
        raised == [ok |-> FALSE, filters |-> EmptyFilters]
    IN  IF ~HasGet(criteria) THEN raised
        ELSE
        LET activity == DictGet(criteria, "activity", JNull)
            location == DictGet(criteria, "location", JStr(<<>>))
            age == DictGet(criteria, "age", JNull)
            f1 == IF Truthy(activity)
                  THEN [EmptyFilters EXCEPT !.category = Some(CategoryValue(activity))]
                  ELSE EmptyFilters
        IN  IF Truthy(location) /\ location.tag # "str" THEN raised
            ELSE
            LET f2 == IF Truthy(location) THEN LocationFilters(f1, location.v)
                      ELSE f1
                f3 == IF Truthy(age) THEN AgeFilters(f2, age) ELSE f2
            IN  [ok |-> TRUE, filters |-> f3]

\* The value of the intent key as current_intent holds it: a text, or None
\* for null.
IntentValue(j) == IF j.tag = "str" THEN Some(j.v) ELSE None

\* Lines 148-152 with the cache dropped on the way out.
ClassifyFailedDropsCache(state) ==
    [state EXCEPT !.current_intent = Some(TextGeneral),
                  !.last_search_results = None]

\* Lines 148-152: the state as it came in, with intent general.
ClassifyFailed(state) == [state EXCEPT !.current_intent = Some(TextGeneral)]

\* Lines 104-108 as they would read without the override.
ExtractedIntentNoFallback(intent_data, has_cached_results) ==
    IntentValue(DictGet(intent_data, "intent", JStr(TextGeneral)))

\* Lines 104-108.
ExtractedIntent(intent_data, has_cached_results) ==
    LET extracted_intent ==
            IntentValue(DictGet(intent_data, "intent", JStr(TextGeneral)))
    IN  IF extracted_intent = Some(TextFilter) /\ ~has_cached_results
        THEN Some(TextSearch)
        ELSE extracted_intent

\* classify_intent_node populating the dict the state already holds instead
\* of a new one.
ClassifyIntentNodeMerging(state, llm) ==
    IF llm.raises THEN ClassifyFailed(state)
    ELSE
    LET intent_data == IntentData(llm.content)
    IN  IF ~HasGet(intent_data) THEN ClassifyFailed(state)
        ELSE
        LET extracted_intent ==
                ExtractedIntent(intent_data, HasCachedResults(state))
            extracted == ExtractFilters(intent_data)
            prior == IF IsNone(state.search_filters) THEN EmptyFilters
                     ELSE Get(state.search_filters)
            new == extracted.filters
            or(a, b) == IF IsNone(a) THEN b ELSE a
            merged == [category |-> or(new.category, prior.category),
                       city |-> or(new.city, prior.city),
                       state |-> or(new.state, prior.state),
                       location |-> or(new.location, prior.location),
                       min_grade |-> or(new.min_grade, prior.min_grade),
                       max_grade |-> or(new.max_grade, prior.max_grade)]
        IN  IF extracted_intent \in {Some(TextSearch), Some(TextFilter)}
            THEN IF extracted.ok
                 THEN [state EXCEPT !.current_intent = extracted_intent,
                                    !.search_filters = Some(merged)]
                 ELSE ClassifyFailed(state)
            ELSE [state EXCEPT !.current_intent = extracted_intent]

ClassifyIntentNode(state, llm) ==
    IF llm.raises THEN ClassifyFailed(state)
    ELSE
    LET intent_data == IntentData(llm.content)
    IN  IF ~HasGet(intent_data) THEN ClassifyFailed(state)
        ELSE
        LET extracted_intent ==
                ExtractedIntent(intent_data, HasCachedResults(state))
            extracted == ExtractFilters(intent_data)
        IN  IF extracted_intent \in {Some(TextSearch), Some(TextFilter)}
            THEN IF extracted.ok
                 THEN [state EXCEPT !.current_intent = extracted_intent,
                                    !.search_filters = Some(extracted.filters)]
                 ELSE ClassifyFailed(state)
            ELSE [state EXCEPT !.current_intent = extracted_intent]

\* route_after_classify sending the filter intent to the database search.
RouteFilterToSearch(state) ==
    IF state.current_intent \in {Some(TextSearch), Some(TextFilter)}
    THEN "search"
    ELSE "respond"

\* route_after_classify
RouteAfterClassify(state) ==
    IF state.current_intent = Some(TextSearch) THEN "search"
    ELSE IF state.current_intent = Some(TextFilter) THEN "filter"
    ELSE "respond"

(***************************************************************************)
(* search_camps_node.  The database answers with a list of camp records or *)
(* raises; which records it returns is the database's business.            *)
(***************************************************************************)
DbRaises == [raises |-> TRUE, camps |-> <<>>]
DbReturns(camps) == [raises |-> FALSE, camps |-> camps]

\* bool(x) of a grade bound a filter dict holds.
TruthyGrade(o) == ~IsNone(o) /\ Get(o) # 0

\* Lines 164-168: the CampSearchFilters object handed to the database; a
\* key of the dict is set on it when its value is truthy (all six keys are
\* fields of CampSearchFilters).
SearchFilterObject(search_filters) ==
    IF NoFiltersSet(search_filters) THEN EmptyFilters
    ELSE LET f == Get(search_filters)
             text(o) == IF TruthyText(o) THEN o ELSE None
             grade(o) == IF TruthyGrade(o) THEN o ELSE None
         IN  [category |-> text(f.category), city |-> text(f.city),
              state |-> text(f.state), location |-> text(f.location),
              min_grade |-> grade(f.min_grade),
              max_grade |-> grade(f.max_grade)]

\* supabase_client.search_camps(filters)
SearchCamps(filters, db) == db

\* search_camps_node whose error handler returns the state as it was.
SearchCampsNodeKeepsCache(state, db) ==
    LET answer == SearchCamps(SearchFilterObject(state.search_filters), db)
    IN  IF answer.raises
        THEN state
        ELSE [state EXCEPT !.last_search_results = Some(answer.camps)]

SearchCampsNode(state, db) ==
    LET answer == SearchCamps(SearchFilterObject(state.search_filters), db)
    IN  IF answer.raises
        THEN [state EXCEPT !.last_search_results = Some(<<>>)]
        ELSE [state EXCEPT !.last_search_results = Some(answer.camps)]

(***************************************************************************)
(* filter_cached_results_node.                                             *)
(***************************************************************************)
\* Lines 210-230.
CategoryMatch(camp, search_filters) ==
    LET category_filter == Lower(Get(search_filters.category))
        camp_name == Lower(OrEmpty(camp.camp_name))
        camp_description == Lower(OrEmpty(camp.description))
    IN  \/ Contains(category_filter, camp_name)
        \/ Contains(category_filter, camp_description)
        \/ \E i \in 1..Len(camp.camp_categories) :
              LET categories == camp.camp_categories[i].categories
                  cat_name == IF IsNone(categories) THEN <<>>
                              ELSE Lower(OrEmpty(Get(categories).name))
              IN  Contains(category_filter, cat_name)

\* Lines 234-238.
LocationFilter(search_filters) ==
    Lower(Strip(OrEmpty(search_filters.city) \o <<" ">>
                \o OrEmpty(search_filters.state) \o <<" ">>
                \o OrEmpty(search_filters.location)))

\* Lines 244-248.
SessionLocation(session) ==
    LET location == session.locations
    IN  IF IsNone(location) THEN <<>>
        ELSE Lower(Strip(OrEmpty(Get(location).city) \o <<" ">>
                         \o OrEmpty(Get(location).state)))

\* Lines 240-253 with a camp without sessions let through.
LocationMatchIncludeDefault(camp, search_filters) ==
    \/ camp.camp_sessions = <<>>
    \/ \E i \in 1..Len(camp.camp_sessions) :
          Contains(LocationFilter(search_filters),
                   SessionLocation(camp.camp_sessions[i]))

\* Lines 240-253.
LocationMatch(camp, search_filters) ==
    \E i \in 1..Len(camp.camp_sessions) :
        Contains(LocationFilter(search_filters),
                 SessionLocation(camp.camp_sessions[i]))

\* Lines 256-267 with the bounds compared strictly on the wrong side.
GradeMatchExclusive(camp, search_filters) ==
    LET filter_min == search_filters.min_grade
        filter_max == search_filters.max_grade
    IN  IF ~IsNone(camp.min_grade) /\ ~IsNone(camp.max_grade)
        THEN /\ ~(~IsNone(filter_min) /\ Get(camp.max_grade) <= Get(filter_min))
             /\ ~(~IsNone(filter_max) /\ Get(camp.min_grade) >= Get(filter_max))
        ELSE TRUE

\* Lines 256-267.
GradeMatch(camp, search_filters) ==
    LET camp_min == camp.min_grade
        camp_max == camp.max_grade
        filter_min == search_filters.min_grade
        filter_max == search_filters.max_grade
    IN  IF ~IsNone(camp_min) /\ ~IsNone(camp_max)
        THEN /\ ~(~IsNone(filter_min) /\ Get(camp_max) < Get(filter_min))
             /\ ~(~IsNone(filter_max) /\ Get(camp_min) > Get(filter_max))
        ELSE TRUE

CategoryActive(search_filters) == TruthyText(search_filters.category)
LocationActive(search_filters) ==
    \/ TruthyText(search_filters.city)
    \/ TruthyText(search_filters.state)
    \/ TruthyText(search_filters.location)
GradeActive(search_filters) ==
    ~IsNone(search_filters.min_grade) \/ ~IsNone(search_filters.max_grade)

\* Lines 207-267 with a camp kept when some active axis passes.
CampMatchesAnyAxis(camp, search_filters) ==
    \/ CategoryActive(search_filters) /\ CategoryMatch(camp, search_filters)
    \/ LocationActive(search_filters) /\ LocationMatch(camp, search_filters)
    \/ GradeActive(search_filters) /\ GradeMatch(camp, search_filters)
    \/ ~(CategoryActive(search_filters) \/ LocationActive(search_filters)
           \/ GradeActive(search_filters))

\* Lines 207-267: the value of match for one camp.
CampMatches(camp, search_filters) ==
    /\ CategoryActive(search_filters) => CategoryMatch(camp, search_filters)
    /\ LocationActive(search_filters) => LocationMatch(camp, search_filters)
    /\ GradeActive(search_filters) => GradeMatch(camp, search_filters)

\* The matching camps collected newest first.
FilteredCampsReversed(cached_camps, search_filters) ==
    LET kept == SelectSeq(cached_camps,
                          LAMBDA camp : CampMatches(camp, search_filters))
    IN  [i \in 1..Len(kept) |-> kept[Len(kept) + 1 - i]]

\* Lines 203-270: the camps that match, in the order of the cache.
RECURSIVE FilteredCamps(_, _)
FilteredCamps(cached_camps, search_filters) ==
    IF cached_camps = <<>> THEN <<>>
    ELSE (IF CampMatches(Head(cached_camps), search_filters)
          THEN <<Head(cached_camps)>> ELSE <<>>)
         \o FilteredCamps(Tail(cached_camps), search_filters)

\* filter_cached_results_node returning the cache as it is.
FilterKeepsCache(state) == state

\* filter_cached_results_node returning no camp when no filter is set.
FilterEmptiesWithoutFilters(state) ==
    IF NoFiltersSet(state.search_filters)
    THEN [state EXCEPT !.last_search_results = Some(<<>>)]
    ELSE [state EXCEPT
            !.last_search_results =
                Some(FilteredCamps(IF IsNone(state.last_search_results) THEN <<>>
                                   ELSE Get(state.last_search_results),
                                   Get(state.search_filters)))]

\* Line 211: search_filters["category"].lower() raises for a category that
\* is no str, on the first camp of a cache that has one.
FilterRaises(state) ==
    /\ ~NoFiltersSet(state.search_filters)
    /\ HasCachedResults(state)
    /\ Get(state.search_filters).category = Some(NotText)

\* Lines 278-284: the error handler.
FilterFailed(state) == [state EXCEPT !.last_search_results = Some(<<>>)]

FilterCachedResultsNode(state) ==
    LET cached_camps == IF IsNone(state.last_search_results) THEN <<>>
                        ELSE Get(state.last_search_results)
    IN  IF NoFiltersSet(state.search_filters) THEN state
        ELSE IF FilterRaises(state) THEN FilterFailed(state)
        ELSE [state EXCEPT
                !.last_search_results =
                    Some(FilteredCamps(cached_camps, Get(state.search_filters)))]

(***************************************************************************)
(* generate_response_node: the reply of the language model, or the fixed   *)
(* text when the call raises.                                              *)
(***************************************************************************)
GenerateResponseNode(state, respond_ok) ==
    [state EXCEPT
        !.final_response = IF respond_ok THEN Response("llm_reply", <<>>)
                           ELSE Response("help_fallback", <<>>)]

(***************************************************************************)
(* CampAgent: the graph and process_message.                               *)
(***************************************************************************)
\* A state made anew for every message, whatever is stored.
GetOrCreateAlwaysNew(message, session_id, stored) ==
    NewChatState(message, session_id)

\* _get_or_create_session_state
GetOrCreateSessionState(message, session_id, stored) ==
    IF ~IsNone(stored)
    THEN [Get(stored) EXCEPT !.messages = Append(@, message)]
    ELSE NewChatState(message, session_id)

\* The nodes the compiled graph runs, in order.
GraphPath(state, llm) ==
    LET route == RouteAfterClassify(ClassifyIntentNode(state, llm))
    IN  IF route = "respond" THEN <<"classify", "respond">>
        ELSE <<"classify", route, "respond">>

\* graph.ainvoke(initial_state.dict())
GraphInvoke(state, llm, db, respond_ok) ==
    LET classified == ClassifyIntentNode(state, llm)
        route == RouteAfterClassify(classified)
        data == IF route = "search" THEN SearchCampsNode(classified, db)
                ELSE IF route = "filter" THEN FilterCachedResultsNode(classified)
                ELSE classified
    IN  GenerateResponseNode(data, respond_ok)

\* process_message: the state saved in session_store.
RouterProcessMessage(message, session_id, stored, llm, db, respond_ok) ==
    LET loaded == GetOrCreateSessionState(message, session_id, stored)
        initial_state == [loaded EXCEPT !.current_intent = None,
                                        !.final_response = NoResponse]
    IN  GraphInvoke(initial_state, llm, db, respond_ok)

(***************************************************************************)
(* Inputs of the router-based workflow.                                    *)
(***************************************************************************)
TextAustin == <<"A", "u", "s", "t", "i", "n">>
TextTX == <<"T", "X">>
TextAustinTX == TextAustin \o <<",", " ">> \o TextTX
TextAustinTXUS == TextAustinTX \o <<",", " ", "U", "S">>
TextDallas == <<"D", "a", "l", "l", "a", "s">>
TextNine == <<"n", "i", "n", "e">>
Text11Padded == <<" ", "1", "1", " ">>
TextChat == <<"c", "h", "a", "t">>
TextSOC == <<"S", "O", "C">>
TextSports == <<"S", "p", "o", "r", "t", "s">>
TextPaint == <<"W", "e", " ", "p", "a", "i", "n", "t">>
TextArtSoccer == <<"A", "r", "t", " ", "&", " ", "S", "o", "c", "c", "e", "r">>
TextKickers == <<"K", "i", "c", "k", "e", "r", "s">>
TextStudio == <<"S", "t", "u", "d", "i", "o">>
TextTrail == <<"T", "r", "a", "i", "l">>

CategoryRel(name) == [categories |-> Some([name |-> Some(name)])]
SessionAt(city, state) ==
    [locations |-> Some([city |-> Some(city), state |-> Some(state)])]
SessionNowhere == [locations |-> None]

\* Soccer by its category association only; grades 3 to 5; in Austin, TX.
CampKickers ==
    [camp_name |-> Some(TextKickers), description |-> None,
     camp_categories |-> <<CategoryRel(TextSports), CategoryRel(TextSoccer)>>,
     camp_sessions |-> <<SessionAt(TextDallas, TextTX), SessionAt(TextAustin, TextTX)>>,
     min_grade |-> Some(3), max_grade |-> Some(5)]
\* Art by its description; no session; no grades.
CampStudio ==
    [camp_name |-> Some(TextStudio), description |-> Some(TextPaint \o <<" ">> \o TextArt),
     camp_categories |-> <<>>,
     camp_sessions |-> <<>>,
     min_grade |-> None, max_grade |-> None]
\* Art and soccer by its name; a session without a location; grades 6 to 8.
CampBoth ==
    [camp_name |-> Some(TextArtSoccer), description |-> None,
     camp_categories |-> <<[categories |-> None]>>,
     camp_sessions |-> <<SessionNowhere>>,
     min_grade |-> Some(6), max_grade |-> Some(8)]
\* Neither; in Dallas, TX; only one grade bound.
CampTrail ==
    [camp_name |-> Some(TextTrail), description |-> None,
     camp_categories |-> <<[categories |-> Some([name |-> None])]>>,
     camp_sessions |-> <<SessionAt(TextDallas, TextTX)>>,
     min_grade |-> Some(9), max_grade |-> None]

CampLists ==
    {<<>>,
     <<CampStudio>>,
     <<CampKickers, CampStudio, CampTrail>>,
     <<CampKickers, CampStudio, CampBoth, CampTrail>>}

DbAnswers == {DbRaises} \cup {DbReturns(camps) : camps \in CampLists}

Criteria(activity, location, age) ==
    JDict([activity |-> activity, location |-> location, age |-> age])
Reply(intent, criteria) ==
    JDict([intent |-> intent, search_criteria |-> criteria])

Bare(j) == LlmContent(<<Doc(j)>>)
FencedJson(j) == LlmContent(<<Ws, FenceJson, Ws, Doc(j), Ws, Fence, Ws>>)
Fenced(j) == LlmContent(<<Fence, Ws, Doc(j), Ws, Fence>>)

WellFormedReplies ==
    {Bare(Reply(JStr(TextSearch),
                Criteria(JStr(TextSoccer), JStr(TextAustinTX), JInt(9)))),
     Bare(Reply(JStr(TextSearch), Criteria(JNull, JStr(TextAustin), JStr(TextNine)))),
     Bare(Reply(JStr(TextSearch), Criteria(JNull, JNull, JInt(0)))),
     Bare(Reply(JStr(TextSearch), Criteria(JNull, JStr(<<",">>), JInt(3)))),
     Fenced(Reply(JStr(TextSearch),
                  Criteria(JNull, JStr(TextAustinTXUS), JStr(Text11Padded)))),
     FencedJson(Reply(JStr(TextFilter), Criteria(JStr(TextArt), JNull, JNull))),
     Bare(Reply(JStr(TextFilter), Criteria(JStr(TextSOC), JNull, JNull))),
     Fenced(Reply(JStr(TextFilter), Criteria(JNull, JStr(TextTX), JList(1)))),
     Bare(Reply(JStr(TextFilter), Criteria(JNull, JNull, JInt(11)))),
     Bare(Reply(JStr(TextFilter), Criteria(JNull, JNull, JFloat(Float(FALSE, 9, <<"7">>))))),
     Bare(Reply(JStr(TextFilter), EmptyDict)),
     Bare(Reply(JStr(TextGeneral), EmptyDict)),
     Bare(Reply(JStr(TextChat), Criteria(JStr(TextArt), JNull, JNull))),
     Bare(Reply(JNull, EmptyDict)),
     Bare(JDict([search_criteria |-> Criteria(JStr(TextArt), JNull, JNull)]))}

\* Replies whose criteria cannot be read: null criteria, a number for the
\* location.
MalformedCriteriaReplies ==
    {Bare(Reply(JStr(TextFilter), JNull)),
     Bare(Reply(JStr(TextSearch), Criteria(JNull, JInt(78701), JNull)))}

\* Replies that are no JSON object: prose, prose around a fenced object,
\* truncated JSON, a JSON array, a JSON string.
NotAnObjectReplies ==
    {LlmContent(<<Prose>>),
     LlmContent(<<Prose, Ws, FenceJson, Ws,
                  Doc(Reply(JStr(TextSearch), EmptyDict)), Ws, Fence>>),
     LlmContent(<<FenceJson, Ws, Prose>>),
     FencedJson(JList(2)),
     Bare(JStr(TextSearch))}

LlmReplies ==
    WellFormedReplies \cup MalformedCriteriaReplies \cup NotAnObjectReplies
        \cup {LlmRaises}

(***************************************************************************)
(* The router-based workflow as a state machine: one turn of a session is  *)
(* one call of process_message.                                            *)
(***************************************************************************)
\* Messages one session may receive under SpecRouter.
MaxRouterTurns == 3

RouterMsgs == {TextHi}

RouterStarted(sid) == ~IsNone(session_store[sid])
RouterStateOf(sid) == Get(session_store[sid])
RouterHistory(sid) ==
    IF RouterStarted(sid) THEN RouterStateOf(sid).messages ELSE <<>>

RouterChat(session_id, message, llm, db, respond_ok) ==
    /\ session_store' =
        [session_store EXCEPT
            ![session_id] = Some(RouterProcessMessage(message, session_id,
                                                      session_store[session_id],
                                                      llm, db, respond_ok))]
    /\ UNCHANGED <<session_states, node_call, in_flight, llm_manager, llm_call>>

RouterTurn ==
    \E sid \in SessionIds, m \in RouterMsgs, llm \in LlmReplies,
       db \in DbAnswers, respond_ok \in BOOLEAN :
        /\ Len(RouterHistory(sid)) < MaxRouterTurns
        /\ RouterChat(sid, m, llm, db, respond_ok)

RouterNext == RouterTurn

SpecRouter == Init /\ [][RouterNext]_vars

(***************************************************************************)
(* The nodes called one at a time on a state dict: the state is drawn from *)
(* NodeInputs, then one node runs on it.                                   *)
(***************************************************************************)
GradeBounds == {None, Some(2), Some(5), Some(6)}

LocationKeys ==
    {[city |-> None, state |-> None, location |-> None],
     [city |-> Some(<<>>), state |-> Some(<<>>), location |-> None],
     [city |-> Some(TextAustin), state |-> Some(TextTX), location |-> None],
     [city |-> None, state |-> None, location |-> Some(TextTX)],
     [city |-> None, state |-> None, location |-> Some(Lower(TextDallas))]}

NodeFilters ==
    {None} \cup
    {Some([category |-> c, city |-> l.city, state |-> l.state,
           location |-> l.location, min_grade |-> lo, max_grade |-> hi]) :
        c \in {None, Some(TextArt), Some(TextSOC)}, l \in LocationKeys,
        lo \in GradeBounds, hi \in GradeBounds}

NodeInputs ==
    {[messages |-> <<TextHi>>,
      session_id |-> "s1",
      current_intent |-> None,
      search_filters |-> f,
      last_search_results |-> r,
      final_response |-> NoResponse] :
        f \in NodeFilters, r \in {None} \cup {Some(camps) : camps \in CampLists}}

InitNodes ==
    /\ session_states = [sid \in SessionIds |-> None]
    /\ session_store = [sid \in SessionIds |-> None]
    /\ \E s \in NodeInputs :
          node_call = [node |-> "none", input |-> Some(s), reply |-> None,
                       output |-> None]
    /\ in_flight = NoRequests
    /\ llm_manager = NewManager
    /\ llm_call = NoManagerCall

Called(node, reply, output) ==
    /\ node_call.node = "none"
    /\ node_call' = [node_call EXCEPT !.node = node, !.reply = Some(reply),
                                      !.output = Some(output)]
    /\ UNCHANGED <<session_states, session_store, in_flight, llm_manager, llm_call>>

ClassifyCall ==
    \E llm \in LlmReplies :
        Called("classify", llm, ClassifyIntentNode(Get(node_call.input), llm))

SearchCall ==
    \E db \in DbAnswers :
        Called("search", db, SearchCampsNode(Get(node_call.input), db))

FilterCall ==
    Called("filter", NoCall, FilterCachedResultsNode(Get(node_call.input)))

RespondCall ==
    \E respond_ok \in BOOLEAN :
        Called("respond", respond_ok,
               GenerateResponseNode(Get(node_call.input), respond_ok))

NodesNext == ClassifyCall \/ SearchCall \/ FilterCall \/ RespondCall

SpecNodes == InitNodes /\ [][NodesNext]_vars

\* The input and the output of the node that was called.
NodeIn == Get(node_call.input)
NodeOut == Get(node_call.output)
NodeReply == Get(node_call.reply)

(***************************************************************************)
(* Properties of the router-based workflow.                                *)
(***************************************************************************)
\* The intent the language model's reply names, when the reply parses to a
\* JSON object.
ReplyIsObject(llm) == ~llm.raises /\ HasGet(IntentData(llm.content))
ReplyIntent(llm) ==
    IntentValue(DictGet(IntentData(llm.content), "intent", JStr(TextGeneral)))
SaysFilter(llm) == ReplyIsObject(llm) /\ ReplyIntent(llm) = Some(TextFilter)
SaysSearch(llm) == ReplyIsObject(llm) /\ ReplyIntent(llm) = Some(TextSearch)

\* The reply's search criteria can be read: they are absent or an object,
\* and the location in them is a text or falsy.
CriteriaReadable(llm) ==
    ReplyIsObject(llm) /\ ExtractFilters(IntentData(llm.content)).ok

ClassifyCalled == node_call.node = "classify"
FilterCalled == node_call.node = "filter"

(***************************************************************************)
(* C11 as stated.  For every reply of the language model: when the reply   *)
(* names the intent filter and the state has no cached results,            *)
(* classify_intent_node sets current_intent to search.                     *)
(***************************************************************************)
C11_FilterAlwaysBecomesSearch ==
    (ClassifyCalled /\ SaysFilter(NodeReply) /\ ~HasCachedResults(NodeIn)) =>
        NodeOut.current_intent = Some(TextSearch)

(***************************************************************************)
(* C11 as amended.  When the state has no cached results,                  *)
(* classify_intent_node never leaves current_intent at filter, so the      *)
(* route after it is never the filter node; and when the reply names the   *)
(* intent filter and its search criteria can be read, current_intent is    *)
(* search.                                                                 *)
(***************************************************************************)
C11_FilterFallsBackToSearch ==
    (ClassifyCalled /\ ~HasCachedResults(NodeIn)) =>
        /\ NodeOut.current_intent # Some(TextFilter)
        /\ RouteAfterClassify(NodeOut) # "filter"
        /\ (SaysFilter(NodeReply) /\ CriteriaReadable(NodeReply)) =>
              NodeOut.current_intent = Some(TextSearch)

C11_Witness ==
    /\ ClassifyCalled
    /\ ~HasCachedResults(NodeIn)
    /\ NodeIn.last_search_results = Some(<<>>)
    /\ SaysFilter(NodeReply)
    /\ NodeOut.current_intent = Some(TextSearch)
    /\ RouteAfterClassify(NodeOut) = "search"

(***************************************************************************)
(* C12.  For every reply that does not parse to a JSON object once the     *)
(* code-fence markers are stripped (prose, prose around a fenced object,   *)
(* truncated JSON, a JSON array, a JSON string), and when the call of the  *)
(* language model raises, classify_intent_node returns the state it was    *)
(* given with current_intent general, and the graph runs the respond node  *)
(* only.                                                                   *)
(***************************************************************************)
C12_UnparsableReplyIsGeneral ==
    (ClassifyCalled /\ NodeReply \in NotAnObjectReplies \cup {LlmRaises}) =>
        /\ NodeOut = [NodeIn EXCEPT !.current_intent = Some(TextGeneral)]
        /\ RouteAfterClassify(NodeOut) = "respond"
        /\ GraphPath(NodeIn, NodeReply) = <<"classify", "respond">>
        /\ \A db \in DbAnswers, respond_ok \in BOOLEAN :
              GraphInvoke(NodeIn, NodeReply, db, respond_ok) =
                  GenerateResponseNode(NodeOut, respond_ok)

C12_Witness ==
    /\ ClassifyCalled
    /\ NodeReply = FencedJson(JList(2))
    /\ HasCachedResults(NodeIn)
    /\ ~NoFiltersSet(NodeIn.search_filters)
    /\ NodeOut.current_intent = Some(TextGeneral)

(***************************************************************************)
(* One turn of the router-based workflow from a stored state.              *)
(***************************************************************************)
\* The state the graph starts from: process_message up to graph.ainvoke.
TurnStart(stored, m, sid) ==
    [GetOrCreateSessionState(m, sid, stored) EXCEPT
        !.current_intent = None, !.final_response = NoResponse]

Cache(state) ==
    IF IsNone(state.last_search_results) THEN <<>>
    ELSE Get(state.last_search_results)

\* Every record of a is a record of b.
SubsetOf(a, b) == \A i \in 1..Len(a) : \E j \in 1..Len(b) : a[i] = b[j]

(***************************************************************************)
(* C13.  In every turn of the router-based workflow the path follows the   *)
(* classified intent.  search: the cache becomes what the database         *)
(* returned (empty when it raised) and respond runs.  filter: the cache    *)
(* becomes the filtered cache, whatever the database would have answered,  *)
(* and respond runs.  general or any other value: respond runs, and        *)
(* last_search_results and search_filters are what they were before the    *)
(* turn, whatever the database would have answered.                        *)
(***************************************************************************)
C13_RoutingByIntent ==
    \A sid \in SessionIds, m \in RouterMsgs, llm \in LlmReplies,
       db \in DbAnswers, respond_ok \in BOOLEAN :
        LET stored == session_store[sid]
            before == TurnStart(stored, m, sid)
            intent == ClassifyIntentNode(before, llm).current_intent
            after == RouterProcessMessage(m, sid, stored, llm, db, respond_ok)
            same_for_any_db ==
                \A other \in DbAnswers :
                    RouterProcessMessage(m, sid, stored, llm, other, respond_ok)
                        = after
        IN  /\ after.current_intent = intent
            /\ after.final_response # NoResponse
            /\ after.messages = before.messages
            /\ intent = Some(TextSearch) =>
                  after.last_search_results =
                      Some(IF db.raises THEN <<>> ELSE db.camps)
            /\ intent = Some(TextFilter) =>
                  /\ same_for_any_db
                  /\ after.last_search_results =
                        IF NoFiltersSet(after.search_filters)
                        THEN before.last_search_results
                        ELSE Some(FilteredCamps(Cache(before),
                                                Get(after.search_filters)))
            /\ intent \notin {Some(TextSearch), Some(TextFilter)} =>
                  /\ same_for_any_db
                  /\ after.last_search_results = before.last_search_results
                  /\ after.search_filters = before.search_filters

\* A turn classified chat, neither search nor filter nor general, after a
\* search that set filters and filled the cache.
C13_Witness ==
    \E sid \in SessionIds :
        /\ RouterStarted(sid)
        /\ Len(RouterHistory(sid)) >= 2
        /\ RouterStateOf(sid).current_intent = Some(TextChat)
        /\ HasCachedResults(RouterStateOf(sid))
        /\ ~NoFiltersSet(RouterStateOf(sid).search_filters)

(***************************************************************************)
(* A refining user: the first turn is classified search and the database   *)
(* returns at least one record; every later turn is classified filter by   *)
(* the language model.                                                     *)
(***************************************************************************)
SearchReplies == {llm \in LlmReplies : SaysSearch(llm) /\ CriteriaReadable(llm)}
FilterReplies == {llm \in LlmReplies : SaysFilter(llm)}
NonEmptyDbAnswers == {db \in DbAnswers : ~db.raises /\ db.camps # <<>>}

RefineSearchTurn ==
    \E sid \in SessionIds, m \in RouterMsgs, llm \in SearchReplies,
       db \in NonEmptyDbAnswers, respond_ok \in BOOLEAN :
        /\ ~RouterStarted(sid)
        /\ RouterChat(sid, m, llm, db, respond_ok)

RefineFilterTurn ==
    \E sid \in SessionIds, m \in RouterMsgs, llm \in FilterReplies,
       db \in DbAnswers, respond_ok \in BOOLEAN :
        /\ RouterStarted(sid)
        /\ Len(RouterHistory(sid)) < MaxRouterTurns
        /\ RouterChat(sid, m, llm, db, respond_ok)

RefineNext == RefineSearchTurn \/ RefineFilterTurn

SpecRefine == Init /\ [][RefineNext]_vars

(***************************************************************************)
(* C14 as stated.  In a run of turns classified filter after a search that *)
(* returned at least one record, the cache after each turn is a subset of  *)
(* the cache before it (no turn takes records from the database).          *)
(***************************************************************************)
C14_CacheOnlyNarrows ==
    [][\A sid \in SessionIds :
          RouterStarted(sid) =>
              SubsetOf(Cache(Get(session_store'[sid])), Cache(RouterStateOf(sid)))]_vars

(***************************************************************************)
(* C14 as amended.  In such a run, a turn whose criteria can be read and   *)
(* that finds the cache non-empty issues no database query and leaves as   *)
(* cache exactly the records of the previous cache that match its filters, *)
(* in their order; a second such turn filters what the first one left, so  *)
(* that every record left matches the filters of both turns; a turn that   *)
(* finds the cache empty is run as a search and takes the cache from the   *)
(* database.                                                               *)
(***************************************************************************)
Narrowed(before, after) ==
    LET f == after.search_filters
    IN  /\ after.current_intent = Some(TextFilter)
        /\ SubsetOf(Cache(after), Cache(before))
        /\ NoFiltersSet(f) => Cache(after) = Cache(before)
        /\ ~NoFiltersSet(f) =>
              /\ \A i \in 1..Len(Cache(after)) :
                    CampMatches(Cache(after)[i], Get(f))
              /\ \A i \in 1..Len(Cache(before)) :
                    CampMatches(Cache(before)[i], Get(f)) =>
                        \E j \in 1..Len(Cache(after)) :
                            Cache(after)[j] = Cache(before)[i]

C14_RefinementWhileCacheNonEmpty ==
    \A sid \in SessionIds :
        RouterStarted(sid) =>
            \A m \in RouterMsgs, llm \in FilterReplies, db \in DbAnswers :
                LET before == TurnStart(session_store[sid], m, sid)
                    after == RouterProcessMessage(m, sid, session_store[sid],
                                                  llm, db, TRUE)
                IN  CriteriaReadable(llm) =>
                    IF HasCachedResults(before)
                    THEN /\ Narrowed(before, after)
                         /\ \A other \in DbAnswers :
                               RouterProcessMessage(m, sid, session_store[sid],
                                                    llm, other, TRUE) = after
                         /\ \A llm2 \in FilterReplies :
                               LET after2 == RouterProcessMessage(m, sid, Some(after),
                                                                  llm2, db, TRUE)
                               IN  (CriteriaReadable(llm2) /\ HasCachedResults(after)) =>
                                       /\ Narrowed(after, after2)
                                       /\ \A i \in 1..Len(Cache(after2)) :
                                             /\ NoFiltersSet(after.search_filters)
                                                \/ CampMatches(Cache(after2)[i],
                                                               Get(after.search_filters))
                    ELSE /\ after.current_intent = Some(TextSearch)
                         /\ after.last_search_results =
                               Some(IF db.raises THEN <<>> ELSE db.camps)

\* Two filters in a row emptied a cache that the first of them had left
\* non-empty.
C14_Witness ==
    \E sid \in SessionIds :
        /\ RouterStarted(sid)
        /\ Len(RouterHistory(sid)) = 3
        /\ RouterStateOf(sid).current_intent = Some(TextFilter)
        /\ ~NoFiltersSet(RouterStateOf(sid).search_filters)
        /\ Get(RouterStateOf(sid).search_filters).category = Some(TextSOC)
        /\ RouterStateOf(sid).last_search_results = Some(<<>>)

(***************************************************************************)
(* Properties of filter_cached_results_node, called on a state dict.       *)
(***************************************************************************)
InCache(state, camp) == \E i \in 1..Len(Cache(state)) : Cache(state)[i] = camp
FiltersIn == Get(NodeIn.search_filters)
FiltersGiven == ~IsNone(NodeIn.search_filters)

(***************************************************************************)
(* C15.  When the filter set is null or the empty dict,                    *)
(* filter_cached_results_node returns the cache unchanged: the same        *)
(* records in the same order.                                              *)
(***************************************************************************)
C15_EmptyFiltersIdentity ==
    (FilterCalled /\ NodeIn.search_filters \in {None, Some(EmptyFilters)}) =>
        /\ NodeOut.last_search_results = NodeIn.last_search_results
        /\ NodeOut = NodeIn

C15_Witness ==
    /\ FilterCalled
    /\ NodeIn.search_filters = Some(EmptyFilters)
    /\ Len(Cache(NodeIn)) >= 3
    /\ Cache(NodeOut) = Cache(NodeIn)

(***************************************************************************)
(* C16.  With only grade bounds in the filter set, a cached camp that has  *)
(* both min_grade and max_grade is dropped exactly when its max_grade is   *)
(* below the filter's min_grade or its min_grade is above the filter's     *)
(* max_grade (a bound the filter does not have drops nothing), and a camp  *)
(* that lacks min_grade or max_grade is never dropped.  The camp with      *)
(* grades 3 to 5 is dropped by min_grade 6 and kept by min_grade 5,        *)
(* max_grade 5.                                                            *)
(***************************************************************************)
GradesDisjoint(camp, f) ==
    \/ ~IsNone(f.min_grade) /\ Get(camp.max_grade) < Get(f.min_grade)
    \/ ~IsNone(f.max_grade) /\ Get(camp.min_grade) > Get(f.max_grade)

HasBothGrades(camp) == ~IsNone(camp.min_grade) /\ ~IsNone(camp.max_grade)

C16_GradeOverlap ==
    (FilterCalled /\ FiltersGiven /\ FiltersIn # EmptyFilters
       /\ ~CategoryActive(FiltersIn) /\ ~LocationActive(FiltersIn)) =>
        /\ \A i \in 1..Len(Cache(NodeIn)) :
              LET camp == Cache(NodeIn)[i]
              IN  InCache(NodeOut, camp) <=>
                      ~(HasBothGrades(camp) /\ GradesDisjoint(camp, FiltersIn))
        /\ (InCache(NodeIn, CampKickers) /\ FiltersIn.min_grade = Some(6)) =>
              ~InCache(NodeOut, CampKickers)
        /\ (InCache(NodeIn, CampKickers) /\ FiltersIn.min_grade = Some(5)
              /\ FiltersIn.max_grade = Some(5)) =>
              InCache(NodeOut, CampKickers)

C16_Witness ==
    /\ FilterCalled
    /\ FiltersGiven
    /\ ~CategoryActive(FiltersIn) /\ ~LocationActive(FiltersIn)
    /\ FiltersIn.min_grade = Some(5) /\ FiltersIn.max_grade = Some(5)
    /\ Cache(NodeIn) = <<CampKickers, CampStudio, CampBoth, CampTrail>>
    /\ Cache(NodeOut) = <<CampKickers, CampStudio, CampTrail>>

(***************************************************************************)
(* C17.  A cached camp is in the filter result if and only if it passes    *)
(* every active axis.  Category: the filter text, lower-cased, occurs in   *)
(* the lower-cased camp name, description or name of some category         *)
(* association.  Location: the lower-cased, trimmed 'city state location'  *)
(* of the filter occurs in the lower-cased, trimmed 'city state' of some   *)
(* session.  Grade: the overlap test.                                      *)
(***************************************************************************)
CampTexts(camp) ==
    {OrEmpty(camp.camp_name), OrEmpty(camp.description)} \cup
    {OrEmpty(Get(camp.camp_categories[i].categories).name) :
        i \in {k \in 1..Len(camp.camp_categories) :
                  ~IsNone(camp.camp_categories[k].categories)}}

PassesCategory(camp, f) ==
    \E t \in CampTexts(camp) : Contains(Lower(Get(f.category)), Lower(t))

SessionTexts(camp) ==
    {IF IsNone(camp.camp_sessions[i].locations) THEN <<>>
     ELSE LET l == Get(camp.camp_sessions[i].locations)
          IN  Strip(OrEmpty(l.city) \o <<" ">> \o OrEmpty(l.state)) :
        i \in 1..Len(camp.camp_sessions)}

PassesLocation(camp, f) ==
    \E t \in SessionTexts(camp) :
        Contains(Lower(Strip(OrEmpty(f.city) \o <<" ">> \o OrEmpty(f.state)
                             \o <<" ">> \o OrEmpty(f.location))),
                 Lower(t))

PassesGrade(camp, f) == ~(HasBothGrades(camp) /\ GradesDisjoint(camp, f))

C17_AxesAndCombined ==
    (FilterCalled /\ FiltersGiven) =>
        /\ \A i \in 1..Len(Cache(NodeIn)) :
              LET camp == Cache(NodeIn)[i]
              IN  InCache(NodeOut, camp) <=>
                      /\ CategoryActive(FiltersIn) => PassesCategory(camp, FiltersIn)
                      /\ LocationActive(FiltersIn) => PassesLocation(camp, FiltersIn)
                      /\ GradeActive(FiltersIn) => PassesGrade(camp, FiltersIn)
        /\ SubsetOf(Cache(NodeOut), Cache(NodeIn))

\* CampBoth passes the category and the grade axis and fails the location
\* axis; CampKickers passes all three.
C17_Witness ==
    /\ FilterCalled
    /\ FiltersGiven
    /\ FiltersIn = [category |-> Some(TextSOC), city |-> Some(TextAustin),
                    state |-> Some(TextTX), location |-> None,
                    min_grade |-> Some(5), max_grade |-> Some(6)]
    /\ Cache(NodeIn) = <<CampKickers, CampStudio, CampBoth, CampTrail>>
    /\ Cache(NodeOut) = <<CampKickers>>

(***************************************************************************)
(* C18.  Whenever a location filter is active (city, state or free-text    *)
(* location set), a cached camp without sessions, or whose sessions carry  *)
(* no location, is not in the filter result.                               *)
(***************************************************************************)
HasLocatedSession(camp) ==
    \E i \in 1..Len(camp.camp_sessions) : ~IsNone(camp.camp_sessions[i].locations)

C18_NoSessionNoLocationMatch ==
    (FilterCalled /\ FiltersGiven /\ LocationActive(FiltersIn)) =>
        \A i \in 1..Len(Cache(NodeOut)) : HasLocatedSession(Cache(NodeOut)[i])

C18_Witness ==
    /\ FilterCalled
    /\ FiltersGiven
    /\ FiltersIn = [EmptyFilters EXCEPT !.location = Some(TextTX)]
    /\ Cache(NodeIn) = <<CampKickers, CampStudio, CampBoth, CampTrail>>
    /\ Cache(NodeOut) = <<CampKickers, CampTrail>>

(***************************************************************************)
(* Properties of the criteria mapping of classify_intent_node.             *)
(***************************************************************************)
\* The classifier went on to map the criteria of the reply.
CriteriaMapped ==
    /\ ClassifyCalled
    /\ CriteriaReadable(NodeReply)
    /\ NodeOut.current_intent \in {Some(TextSearch), Some(TextFilter)}

ReplyCriteria ==
    DictGet(IntentData(NodeReply.content), "search_criteria", EmptyDict)
ReplyAge == DictGet(ReplyCriteria, "age", JNull)
ReplyLocation == DictGet(ReplyCriteria, "location", JStr(<<>>))
FiltersOut == Get(NodeOut.search_filters)

\* The age is an integer: a JSON integer, or a text that is an integer
\* literal.
AgeIsInteger(age) ==
    \/ age.tag = "int"
    \/ age.tag = "str" /\ ParseInt(age.v).ok
AgeValue(age) == IF age.tag = "int" THEN age.v ELSE ParseInt(age.v).val

\* The age is no number at all: null, a list, or a text that is no integer
\* literal.
AgeIsNoInteger(age) ==
    \/ age.tag \in {"null", "list"}
    \/ age.tag = "str" /\ ~ParseInt(age.v).ok

(***************************************************************************)
(* C19.  For every age criterion that is an integer the classifier sets    *)
(* min_grade = max(0, age - 5) and max_grade = min_grade + 2; for an age   *)
(* that is no integer it sets neither, and still returns the state with    *)
(* the classified intent.                                                  *)
(***************************************************************************)
C19_AgeToGrade ==
    CriteriaMapped =>
        /\ AgeIsInteger(ReplyAge) =>
              /\ FiltersOut.min_grade = Some(Max(0, AgeValue(ReplyAge) - 5))
              /\ FiltersOut.max_grade = Some(Max(0, AgeValue(ReplyAge) - 5) + 2)
        /\ AgeIsNoInteger(ReplyAge) =>
              /\ FiltersOut.min_grade = None
              /\ FiltersOut.max_grade = None

(***************************************************************************)
(* C20 as stated.  For a location criterion with a comma the classifier    *)
(* sets city to the text before the first comma, state to the trimmed text *)
(* after the first comma, and no free-text location; for a non-empty       *)
(* location without a comma it sets only the free-text location.           *)
(***************************************************************************)
HasComma(t) == \E i \in 1..Len(t) : t[i] = ","
FirstComma(t) == CHOOSE i \in 1..Len(t) : t[i] = "," /\ \A k \in 1..(i - 1) : t[k] # ","
BeforeFirstComma(t) == SubSeq(t, 1, FirstComma(t) - 1)
AfterFirstComma(t) == SubSeq(t, FirstComma(t) + 1, Len(t))

LocationIsText == ReplyLocation.tag = "str" /\ ReplyLocation.v # <<>>

C20_StateIsAllAfterFirstComma ==
    (CriteriaMapped /\ LocationIsText) =>
        LET t == ReplyLocation.v
        IN  IF HasComma(t)
            THEN /\ FiltersOut.city = Some(BeforeFirstComma(t))
                 /\ FiltersOut.state = Some(Strip(AfterFirstComma(t)))
                 /\ FiltersOut.location = None
            ELSE /\ FiltersOut.location = Some(t)
                 /\ FiltersOut.city = None
                 /\ FiltersOut.state = None

(***************************************************************************)
(* C20 as amended.  For a location criterion with a comma the classifier   *)
(* sets city to the trimmed text before the first comma, state to the      *)
(* trimmed text between the first comma and the second (to the end when    *)
(* there is no second), and no free-text location; for a non-empty         *)
(* location without a comma it sets only the free-text location, trimmed.  *)
(***************************************************************************)
SecondPiece(t) ==
    LET rest == AfterFirstComma(t)
    IN  IF HasComma(rest) THEN BeforeFirstComma(rest) ELSE rest

C20_StateIsSecondPiece ==
    (CriteriaMapped /\ LocationIsText) =>
        LET t == ReplyLocation.v
        IN  IF HasComma(t)
            THEN /\ FiltersOut.city = Some(Strip(BeforeFirstComma(t)))
                 /\ FiltersOut.state = Some(Strip(SecondPiece(t)))
                 /\ FiltersOut.location = None
            ELSE /\ FiltersOut.location = Some(Strip(t))
                 /\ FiltersOut.city = None
                 /\ FiltersOut.state = None

C20_Witness ==
    /\ CriteriaMapped
    /\ LocationIsText
    /\ ReplyLocation.v = TextAustinTXUS
    /\ FiltersOut.city = Some(TextAustin)
    /\ FiltersOut.state = Some(TextTX)
    /\ FiltersOut.location = None

(***************************************************************************)
(* C21.  classify_intent_node never changes the cached result set: for     *)
(* every input state and every reply of the language model,                *)
(* last_search_results after the node equals last_search_results before    *)
(* it (the node takes no answer of the database).                          *)
(***************************************************************************)
C21_ClassifyKeepsCache ==
    ClassifyCalled =>
        /\ NodeOut.last_search_results = NodeIn.last_search_results
        /\ NodeOut.messages = NodeIn.messages

\* A reply classified search on a state with cached results: the cache is
\* still there after the node.
C21_Witness ==
    /\ ClassifyCalled
    /\ HasCachedResults(NodeIn)
    /\ NodeOut.current_intent = Some(TextSearch)
    /\ NodeOut.search_filters # NodeIn.search_filters
    /\ NodeOut.last_search_results = NodeIn.last_search_results

(***************************************************************************)
(* The staged pipeline, started from a state the caller supplies.          *)
(***************************************************************************)
MaxPipelineTurns == 5

\* A profile with every field filled, as test_with_existing_profile builds.
ExistingProfile ==
    [name |-> TextSam, child_name |-> TextAlex, child_age |-> 10,
     child_grade |-> 5, interests |-> <<TextSoccer, TextArt>>,
     address |-> TextMainSt, max_distance_miles |-> Float(FALSE, 25, <<>>)]

\* The state dict the caller passes: the profile is there, nothing
\* downstream is, and the cursor is at the given step.
ExistingState(session_id, profile_step) ==
    [InitialState(session_id) EXCEPT
        !.profile = Some(ExistingProfile),
        !.profile_step = profile_step,
        !.needs_profile = FALSE]

\* The cursor positions of the supplied states: collection finished, or
\* the last two questions still to be asked again.
ExistingSteps == {"None", "address", "distance"}

PipelineMsgs == {<<>>, TextAl, Text25}

InitPipeline ==
    /\ session_states \in
        [SessionIds -> {Some(ExistingState(sid, step)) :
                            sid \in SessionIds, step \in ExistingSteps}]
    /\ \A sid \in SessionIds : Get(session_states[sid]).session_id = sid
    /\ session_store = [sid \in SessionIds |-> None]
    /\ node_call = NoCall
    /\ in_flight = NoRequests
    /\ llm_manager = NewManager
    /\ llm_call = NoManagerCall

PipelineTurn ==
    \E sid \in SessionIds, m \in PipelineMsgs, categories \in CategoryResults,
       camps \in SearchResults :
        /\ Len(History(sid)) < MaxPipelineTurns
        /\ ChatEndpoint(sid, m, categories, camps)

PipelineNext == PipelineTurn

SpecPipeline == InitPipeline /\ [][PipelineNext]_vars

(***************************************************************************)
(* Claims about the staged pipeline.                                       *)
(***************************************************************************)
\* The stage whose response a state carries.
StageOf(state) ==
    LET kind == state.final_response.kind
    IN  IF kind \in {"preparing", "no_profile"} THEN "derive"
        ELSE IF kind \in {"found_count", "none_found", "no_filters"} THEN "search"
        ELSE IF kind \in {"table", "table_none"} THEN "format"
        ELSE "collect"

\* The search of the last turn stored rows.
SearchStoredRows(state) ==
    /\ StageOf(state) = "search"
    /\ ~IsNone(state.last_search_results)
    /\ Get(state.last_search_results) # <<>>

\* C22: the stages run in the order collect, derive filters, search, format,
\* one per turn: the turn after the profile is complete derives the filters,
\* the turn after that searches, and the turn after a search that stored a
\* non-empty result list formats the table.
C22_StagesInOrder ==
    \A sid \in SessionIds :
        Started(sid) =>
            \A m \in PipelineMsgs, categories \in CategoryResults,
               camps \in SearchResults :
                LET before == StateOf(sid)
                    after == Turn(before, m, categories, camps)
                IN  /\ (IsProfileComplete(before) /\ StageOf(before) = "collect")
                          => StageOf(after) = "derive"
                    /\ StageOf(before) = "derive" => StageOf(after) = "search"
                    /\ SearchStoredRows(before) => StageOf(after) = "format"

\* The database was asked in the turn: what it answers shows in the result.
SearchIssued(state, m, categories) ==
    \E camps1, camps2 \in SearchResults :
        Turn(state, m, categories, camps1) # Turn(state, m, categories, camps2)

\* C23: once the search has run (its result list is stored, empty or not),
\* no later turn asks the database again.
C23_SearchAtMostOnce ==
    \A sid \in SessionIds :
        (Started(sid) /\ ~IsNone(StateOf(sid).last_search_results)) =>
            \A m \in PipelineMsgs, categories \in CategoryResults :
                ~SearchIssued(StateOf(sid), m, categories)

\* Every profile field holds a usable value.
AllFieldsFilled(state) ==
    /\ ~IsNone(state.profile)
    /\ LET profile == Get(state.profile)
       IN  /\ profile.name # <<>> /\ profile.child_name # <<>>
           /\ profile.interests # <<>> /\ profile.address # <<>>
           /\ FloatGtZero(profile.max_distance_miles)

\* C24: while the cursor is not at complete, a turn runs the profile
\* collector only: its result is the collector's, it leaves the search
\* filters and the cached results as they were, and the database is not
\* asked.
C24_NoStageBeforeComplete ==
    \A sid \in SessionIds :
        (Started(sid) /\ Cursor(StateOf(sid)) # "complete") =>
            \A m \in PipelineMsgs, categories \in CategoryResults,
               camps \in SearchResults :
                LET before == StateOf(sid)
                    after == Turn(before, m, categories, camps)
                IN  /\ StageOf(after) = "collect"
                    /\ after.search_filters = before.search_filters
                    /\ after.last_search_results = before.last_search_results
                    /\ ~SearchIssued(before, m, categories)
                    /\ after = CollectProfileNode(
                                   [before EXCEPT !.messages = Append(@, m)],
                                   categories).returned

\* All fields are filled, the cursor is mid-flow and a turn has been taken.
C24_Witness ==
    \E sid \in SessionIds :
        /\ Started(sid)
        /\ AllFieldsFilled(StateOf(sid))
        /\ Cursor(StateOf(sid)) = "distance"
        /\ StateOf(sid).messages # <<>>
        /\ IsNone(StateOf(sid).search_filters)

\* The pipeline is at its end: complete profile, filters, rows in the cache
\* and the response of the search or of the table formatting, both of which
\* carry the words "I found" when there are rows.
Terminal(state) ==
    /\ IsProfileComplete(state)
    /\ ~IsNone(state.search_filters)
    /\ ~IsNone(state.last_search_results)
    /\ Get(state.last_search_results) # <<>>
    /\ StageOf(state) \in {"search", "format"}

EitherAppTurn ==
    /\ \A sid \in SessionIds : ~RouterStarted(sid)
    /\ UserTurn

EitherRouterTurn ==
    /\ \A sid \in SessionIds : ~Started(sid)
    /\ RouterTurn

EitherNext == EitherAppTurn \/ EitherRouterTurn

SpecEither == Init /\ [][EitherNext]_vars

\* The reply raised as HTTPException(status_code=500).
HttpError == Response("http_500", <<>>)

\* app chat_endpoint, from the extraction of final_response on: building
\* ChatResponse with response=None fails validation, and the handler turns
\* every exception into the 500 reply.
ChatEndpointResponse(response) ==
    IF response.final_response = NoResponse THEN HttpError
    ELSE response.final_response

\* router process_message: final_state.final_response or the fixed text.
RouterResponseText(final_state) ==
    IF final_state.final_response = NoResponse
    THEN Response("help_fallback", <<>>)
    ELSE final_state.final_response

\* A response that is a text.
IsText(r) == r # NoResponse /\ r # HttpError

OneAppended(history1, history2) ==
    /\ Len(history2) = Len(history1) + 1
    /\ SubSeq(history2, 1, Len(history1)) = history1

\* C29: in both orchestrators a processed message appends exactly one entry
\* to the message list of its session and leaves the earlier entries as
\* they were, in their order; the state of the other orchestrator is not
\* touched.
C29_HistoryAppendOnly ==
    [][\E sid \in SessionIds :
           \/ /\ OneAppended(History(sid), History(sid)')
              /\ RouterHistory(sid)' = RouterHistory(sid)
           \/ /\ OneAppended(RouterHistory(sid), RouterHistory(sid)')
              /\ History(sid)' = History(sid)]_vars

\* A router session has taken a turn on its error paths (the classifier's
\* reply unusable, the search and the response generation failing) after
\* an earlier turn.
C29_Witness ==
    \E sid \in SessionIds :
        /\ RouterStarted(sid)
        /\ Len(RouterHistory(sid)) >= 2
        /\ RouterStateOf(sid).final_response = Response("help_fallback", <<>>)
        /\ RouterStateOf(sid).current_intent = Some(TextGeneral)

SearchCalled == node_call.node = "search"

\* C30: when the database search raises, the search node returns its input
\* with the empty result list in place of the cached results (history and
\* search filters as they were), which is what it returns for a search that
\* found nothing; the response node then produces a text, and the next turn
\* of a session in that state appends its message and answers with a text.
C30_SearchFailureContained ==
    (SearchCalled /\ NodeReply.raises) =>
        /\ NodeOut = [NodeIn EXCEPT !.last_search_results = Some(<<>>)]
        /\ NodeOut = SearchCampsNode(NodeIn, DbReturns(<<>>))
        /\ \A respond_ok \in BOOLEAN :
               IsText(RouterResponseText(GenerateResponseNode(NodeOut, respond_ok)))
        /\ \A m \in RouterMsgs, llm \in LlmReplies, db \in DbAnswers,
              respond_ok \in BOOLEAN :
               LET next == RouterProcessMessage(m, NodeOut.session_id,
                                                Some(NodeOut), llm, db, respond_ok)
               IN  /\ next.messages = Append(NodeIn.messages, m)
                   /\ IsText(RouterResponseText(next))

\* The search raised on a state that had cached camps and filters.
C30_Witness ==
    /\ SearchCalled
    /\ NodeReply = DbRaises
    /\ HasCachedResults(NodeIn)
    /\ ~NoFiltersSet(NodeIn.search_filters)
    /\ NodeOut.last_search_results = Some(<<>>)
    /\ NodeOut.search_filters = NodeIn.search_filters

(***************************************************************************)
(* Two sessions served by one endpoint, their turns interleaved in any     *)
(* order.                                                                  *)
(***************************************************************************)
MaxPairTurns == 2

PairIds == {"s1", "s2"}

PairMsgs == {<<>>, TextAl}

PairReplies ==
    {Bare(Reply(JStr(TextSearch),
                Criteria(JStr(TextSoccer), JStr(TextAustinTX), JInt(9)))),
     FencedJson(Reply(JStr(TextFilter), Criteria(JStr(TextArt), JNull, JNull))),
     LlmRaises}

PairDbAnswers == {DbRaises, DbReturns(<<CampKickers, CampStudio, CampTrail>>)}

InitPairs ==
    /\ session_states = [sid \in PairIds |-> None]
    /\ session_store = [sid \in PairIds |-> None]
    /\ node_call = NoCall
    /\ in_flight = NoRequests
    /\ llm_manager = NewManager
    /\ llm_call = NoManagerCall

PairAppTurn ==
    \E sid \in PairIds, m \in PairMsgs, categories \in CategoryResults,
       camps \in SearchResults :
        /\ \A other \in PairIds : ~RouterStarted(other)
        /\ Len(History(sid)) < MaxPairTurns
        /\ ChatEndpoint(sid, m, categories, camps)

PairRouterTurn ==
    \E sid \in PairIds, m \in RouterMsgs, llm \in PairReplies,
       db \in PairDbAnswers, respond_ok \in BOOLEAN :
        /\ \A other \in PairIds : ~Started(other)
        /\ Len(RouterHistory(sid)) < MaxPairTurns
        /\ RouterChat(sid, m, llm, db, respond_ok)

PairNext == PairAppTurn \/ PairRouterTurn

SpecPairs == InitPairs /\ [][PairNext]_vars

\* The step is a turn of session a alone: the state stored for a is what
\* the turn function gives on a's own stored state, and the state stored
\* for every other session is left as it was.
AppTurnOf(a) ==
    /\ \E m \in PairMsgs, categories \in CategoryResults, camps \in SearchResults :
           session_states'[a] =
               Some(ProcessMessage(m, a, session_states[a], categories, camps))
    /\ \A b \in PairIds \ {a} : session_states'[b] = session_states[b]
    /\ session_store' = session_store

RouterTurnOf(a) ==
    /\ \E m \in RouterMsgs, llm \in PairReplies, db \in PairDbAnswers,
          respond_ok \in BOOLEAN :
           session_store'[a] =
               Some(RouterProcessMessage(m, a, session_store[a], llm, db,
                                         respond_ok))
    /\ \A b \in PairIds \ {a} : session_store'[b] = session_store[b]
    /\ session_states' = session_states

\* The states session sid reaches when at most k turns of it run alone.
RECURSIVE AppAlone(_, _)
AppAlone(sid, k) ==
    IF k = 0 THEN {None}
    ELSE LET earlier == AppAlone(sid, k - 1)
         IN  earlier \cup
                 {Some(ProcessMessage(m, sid, stored, categories, camps)) :
                      stored \in earlier, m \in PairMsgs,
                      categories \in CategoryResults, camps \in SearchResults}

RECURSIVE RouterAlone(_, _)
RouterAlone(sid, k) ==
    IF k = 0 THEN {None}
    ELSE LET earlier == RouterAlone(sid, k - 1)
         IN  earlier \cup
                 {Some(RouterProcessMessage(m, sid, stored, llm, db, respond_ok)) :
                      stored \in earlier, m \in RouterMsgs, llm \in PairReplies,
                      db \in PairDbAnswers, respond_ok \in BOOLEAN}

AppAloneStates == [sid \in PairIds |-> AppAlone(sid, MaxPairTurns)]
RouterAloneStates == [sid \in PairIds |-> RouterAlone(sid, MaxPairTurns)]

\* C27: in every interleaving of the turns of two sessions, each step is a
\* turn of one session computed from that session's stored state alone, it
\* writes that session's entry only, and the state it stores is one the
\* session reaches when its turns run alone.
C27_SessionsIndependent ==
    [][\E a \in PairIds :
           \/ AppTurnOf(a) /\ session_states'[a] \in AppAloneStates[a]
           \/ RouterTurnOf(a) /\ session_store'[a] \in RouterAloneStates[a]]_vars

\* Both sessions have taken turns and are in different states.
C27_Witness ==
    /\ Started("s1") /\ Started("s2")
    /\ Len(History("s1")) = 2
    /\ Len(History("s2")) = 1
    /\ Cursor(StateOf("s1")) # Cursor(StateOf("s2"))

(***************************************************************************)
(* The app's chat endpoint with calls that overlap.  chat_endpoint and     *)
(* process_message run without suspension from the read of session_states  *)
(* to the await of graph.ainvoke, and again from the return of the graph   *)
(* to the write of session_states; other calls run in between.  The dict   *)
(* read from session_states is the stored object itself, so the append of  *)
(* process_message shows in the store and in every call holding that       *)
(* object.  The services answer the same throughout.                       *)
(***************************************************************************)
ConcurrentMsgs == {TextAl, Text10}
ConcurrentCategories == <<TextArt, TextSoccer>>
ConcurrentCamps == <<>>

Running(r) == ~IsNone(in_flight[r]) /\ Get(in_flight[r]).phase = "running"
Done(r) == ~IsNone(in_flight[r]) /\ Get(in_flight[r]).phase = "done"

\* The call is under way for the session and holds the stored dict object.
HoldsStored(r, session_id) ==
    /\ Running(r)
    /\ Get(in_flight[r]).session_id = session_id
    /\ Get(in_flight[r]).aliased

\* chat_endpoint up to the await: read the state, create it when there is
\* none, append the message.
BeginRequest(r, session_id, message) ==
    LET existing_state == session_states[session_id]
        state == IF IsNone(existing_state)
                 THEN [InitialState(session_id) EXCEPT !.messages = <<message>>]
                 ELSE [Get(existing_state) EXCEPT !.messages = Append(@, message)]
        call == [phase |-> "running", session_id |-> session_id,
                 message |-> message, begun |-> state, state |-> state,
                 aliased |-> ~IsNone(existing_state)]
    IN  /\ IsNone(in_flight[r])
        /\ \A earlier \in RequestIds : earlier < r => ~IsNone(in_flight[earlier])
        /\ session_states' =
               IF IsNone(existing_state) THEN session_states
               ELSE [session_states EXCEPT ![session_id] = Some(state)]
        /\ in_flight' =
               [q \in RequestIds |->
                   IF q = r THEN Some(call)
                   ELSE IF ~IsNone(existing_state) /\ HoldsStored(q, session_id)
                   THEN Some([Get(in_flight[q]) EXCEPT !.state = state])
                   ELSE in_flight[q]]
        /\ UNCHANGED <<session_store, node_call, llm_manager, llm_call>>

\* chat_endpoint from the graph's run on: the node works on the dict as it
\* was when the call began or as it is now, and its result replaces the
\* stored object.
FinishRequest(r, seen) ==
    LET call == Get(in_flight[r])
        response == ProcessRequestNode(seen, ConcurrentCategories,
                                       ConcurrentCamps)
    IN  /\ session_states' =
               [session_states EXCEPT ![call.session_id] = Some(response)]
        /\ in_flight' =
               [q \in RequestIds |->
                   IF q = r
                   THEN Some([phase |-> "done", session_id |-> call.session_id,
                              message |-> call.message])
                   ELSE IF HoldsStored(q, call.session_id)
                   THEN Some([Get(in_flight[q]) EXCEPT !.aliased = FALSE])
                   ELSE in_flight[q]]
        /\ UNCHANGED <<session_store, node_call, llm_manager, llm_call>>

Begin ==
    \E r \in RequestIds, sid \in SessionIds, m \in ConcurrentMsgs :
        BeginRequest(r, sid, m)

Finish ==
    \E r \in RequestIds :
        /\ Running(r)
        /\ \E seen \in {Get(in_flight[r]).begun, Get(in_flight[r]).state} :
               FinishRequest(r, seen)

ConcurrentNext == Begin \/ Finish

SpecConcurrent == Init /\ [][ConcurrentNext]_vars

\* The states the session is left in when the messages of the calls in ids
\* are processed one after the other, each from the state the one before
\* stored, in any order.
RECURSIVE SerialOutcomes(_, _, _)
SerialOutcomes(session_id, stored, ids) ==
    IF ids = {} THEN {stored}
    ELSE UNION {SerialOutcomes(session_id,
                               Some(ProcessMessage(Get(in_flight[r]).message,
                                                   session_id, stored,
                                                   ConcurrentCategories,
                                                   ConcurrentCamps)),
                               ids \ {r}) : r \in ids}

DoneFor(session_id) ==
    {r \in RequestIds : Done(r) /\ Get(in_flight[r]).session_id = session_id}

\* C26: the read-modify-write of a session's state is atomic: whenever no
\* call is under way, the stored state of a session is the one that
\* processing the messages of its finished calls one at a time, in some
\* order, leaves, so no cursor advance and no history entry is lost.
C26_NoLostUpdate ==
    (\A r \in RequestIds : ~Running(r)) =>
        \A sid \in SessionIds :
            session_states[sid] \in SerialOutcomes(sid, None, DoneFor(sid))

(***************************************************************************)
(* The router-based workflow with a language model that may name the       *)
(* activity by a number instead of a text.                                 *)
(***************************************************************************)
UntypedReplies ==
    PairReplies \cup
        {Bare(Reply(JStr(TextFilter), Criteria(JInt(7), JNull, JNull))),
         Bare(Reply(JStr(TextFilter), Criteria(JInt(7), JStr(TextAustin), JInt(9))))}

UntypedTurn ==
    \E sid \in SessionIds, m \in RouterMsgs, llm \in UntypedReplies,
       db \in DbAnswers, respond_ok \in BOOLEAN :
        /\ Len(RouterHistory(sid)) < MaxRouterTurns
        /\ RouterChat(sid, m, llm, db, respond_ok)

UntypedNext == UntypedTurn

SpecUntyped == Init /\ [][UntypedNext]_vars

\* C31: when a node catches an unexpected exception, the state it returns
\* differs from the state it was given in the response text only; for the
\* filter node: history, search filters and cached results are those it was
\* given.
C31_ErrorKeepsState ==
    \A sid \in SessionIds, m \in RouterMsgs, llm \in UntypedReplies :
        LET classified == ClassifyIntentNode(TurnStart(session_store[sid], m, sid),
                                             llm)
            returned == FilterCachedResultsNode(classified)
        IN  (RouteAfterClassify(classified) = "filter" /\ FilterRaises(classified)) =>
                /\ returned.messages = classified.messages
                /\ returned.search_filters = classified.search_filters
                /\ returned.last_search_results = classified.last_search_results

(***************************************************************************)
(* The interests answer parsed on its own: an answer is typed as up to     *)
(* MaxTokens pieces separated by commas, and the parser is applied to it   *)
(* with the category list the service returned.                            *)
(***************************************************************************)
MaxTokens == 3

\* A typed piece: its text, whether it is blank, the number it names (0
\* when it names none that can select) and its text without the blanks
\* around it.
Piece(text, blank, number, trimmed) ==
    [text |-> text, blank |-> blank, number |-> number, trimmed |-> trimmed]

Pieces ==
    {Piece(<<"1">>, FALSE, 1, <<"1">>),
     Piece(<<" ", "2", " ">>, FALSE, 2, <<"2">>),
     Piece(<<"3">>, FALSE, 3, <<"3">>),
     Piece(<<"+", "1">>, FALSE, 1, <<"+", "1">>),
     Piece(<<"0">>, FALSE, 0, <<"0">>),
     Piece(<<"-", "1">>, FALSE, 0, <<"-", "1">>),
     Piece(<<"1", "x">>, FALSE, 0, <<"1", "x">>),
     Piece(<<" ">> \o TextArt, FALSE, 0, TextArt),
     Piece(<<" ">>, TRUE, 0, <<>>),
     Piece(<<>>, TRUE, 0, <<>>)}

TextChess == <<"c", "h", "e", "s", "s">>

InterestCategories == {<<>>, <<TextArt, TextSoccer>>, <<TextArt, TextChess, TextSoccer>>}

TypedAnswers == UNION {[1..n -> Pieces] : n \in 1..MaxTokens}

\* ','.join of the pieces' texts.
RECURSIVE JoinComma(_)
JoinComma(typed) ==
    IF Len(typed) = 1 THEN typed[1].text
    ELSE typed[1].text \o <<",">> \o JoinComma(Tail(typed))

InitInterests ==
    /\ session_states = [sid \in SessionIds |-> None]
    /\ session_store = [sid \in SessionIds |-> None]
    /\ in_flight = NoRequests
    /\ llm_manager = NewManager
    /\ llm_call = NoManagerCall
    /\ \E typed \in TypedAnswers, categories \in InterestCategories :
          node_call = [node |-> "none",
                       input |-> Some([typed |-> typed,
                                       last_message |-> JoinComma(typed),
                                       categories |-> categories]),
                       reply |-> None, output |-> None]

InterestsCall ==
    Called("interests", NoCall,
           ParseInterests(NodeIn.last_message, NodeIn.categories))

InterestsNext == InterestsCall

SpecInterests == InitInterests /\ [][InterestsNext]_vars

InterestsCalled == node_call.node = "interests"

\* What a typed piece stands for, given the category list: the category it
\* numbers, or its own text without the blanks around it.
Meaning(piece, categories) ==
    IF 1 <= piece.number /\ piece.number <= Len(categories)
    THEN categories[piece.number]
    ELSE piece.trimmed

\* The meanings of the pieces that are not blank, in the order typed.
RECURSIVE Meanings(_, _)
Meanings(typed, categories) ==
    IF typed = <<>> THEN <<>>
    ELSE (IF typed[1].blank THEN <<>> ELSE <<Meaning(typed[1], categories)>>)
             \o Meanings(Tail(typed), categories)

\* C32: the interests answer is split on commas, each token is trimmed and
\* the empty ones are dropped; a token that is an integer k with
\* 1 <= k <= n selects the k-th of the n categories, every other token stays
\* as typed, and the tokens keep their order.
C32_InterestTokens ==
    InterestsCalled => NodeOut = Meanings(NodeIn.typed, NodeIn.categories)

\* An answer with a blank piece, a padded number in range, a number out of
\* range and a word, parsed against three categories.
C32_Witness ==
    /\ InterestsCalled
    /\ Len(NodeIn.categories) = 3
    /\ NodeIn.last_message = <<" ", ",", " ", "2", " ", ",", "0">>
    /\ NodeOut = <<TextChess, <<"0">>>>

\* a is b with some of its entries left out: the entries of a are entries
\* of b, as they are and in b's order.
RECURSIVE IsSubsequence(_, _)
IsSubsequence(a, b) ==
    IF a = <<>> THEN TRUE
    ELSE IF b = <<>> THEN FALSE
    ELSE IF Head(a) = Head(b) THEN IsSubsequence(Tail(a), Tail(b))
    ELSE IsSubsequence(a, Tail(b))

\* C33: the result of the filter node is the cache with some records left
\* out: every record of the result is a record of the cache, unchanged, and
\* the records keep the order they have in the cache.
C33_FilterSelectsOnly ==
    FilterCalled => IsSubsequence(Cache(NodeOut), Cache(NodeIn))

\* A filter that kept some camps of a cache of several and dropped others.
C33_Witness ==
    /\ FilterCalled
    /\ Len(Cache(NodeIn)) >= 3
    /\ Len(Cache(NodeOut)) >= 2
    /\ Len(Cache(NodeOut)) < Len(Cache(NodeIn))

\* The keys of a filter set.
FilterKeys == {"category", "city", "state", "location", "min_grade", "max_grade"}

\* C34: on a turn routed to search the filter object handed to the database
\* has the grade bounds of the derived filter set, min_grade = 0 for ages of
\* 5 or less included, and every non-empty text value of it.
C34_SearchGetsDerivedFilters ==
    \A sid \in SessionIds, m \in RouterMsgs, llm \in LlmReplies :
        LET classified == ClassifyIntentNode(TurnStart(session_store[sid], m, sid),
                                             llm)
            derived == classified.search_filters
            passed == SearchFilterObject(derived)
        IN  (RouteAfterClassify(classified) = "search" /\ ~IsNone(derived)) =>
                /\ passed.min_grade = Get(derived).min_grade
                /\ passed.max_grade = Get(derived).max_grade
                /\ \A key \in FilterKeys \ {"min_grade", "max_grade"} :
                       TruthyText(Get(derived)[key]) => passed[key] = Get(derived)[key]

\* The session's state with the message of the turn appended: the dict the
\* collector is given.
Given(state, m) == [state EXCEPT !.messages = Append(@, m)]

\* The first visit of the interests step: the cursor is at interests, the
\* step is not marked as prompted and the message is not a repeat.
FirstInterestsVisit(state, m) ==
    /\ Cursor(state) = "interests"
    /\ ~InterestsPrompted(state)
    /\ ~IsDuplicate(Given(state, m), MessageHash("interests", m))

\* C35: on the first visit of the interests step with a category service
\* that returns the empty list or fails, the turn answers with the free-text
\* interests prompt, the cursor stays at interests and the state of the
\* session has the step marked as prompted.
C35_EmptyCategoriesPrompt ==
    \A sid \in SessionIds, m \in Msgs, camps \in SearchResults :
        (Started(sid) /\ FirstInterestsVisit(StateOf(sid), m)) =>
            LET after == Turn(StateOf(sid), m, <<>>, camps)
            IN  /\ after.final_response.kind = "ask_interests"
                /\ Cursor(after) = "interests"
                /\ InterestsPrompted(after)

\* The criteria of a classifier reply, the empty dict when it has none.
CriteriaOf(llm) ==
    DictGet(IntentData(llm.content), "search_criteria", EmptyDict)

\* The criterion of a reply that a key of the filter set is derived from.
CriterionOf(key) ==
    CASE key = "category" -> "activity"
      [] key \in {"city", "state", "location"} -> "location"
      [] key \in {"min_grade", "max_grade"} -> "age"

\* The classifier took the turn for a search or a filter turn.
SearchOrFilterTurn(state) ==
    state.current_intent \in {Some(TextSearch), Some(TextFilter)}

\* C36: after classify_intent_node takes a turn for a search or a filter
\* turn, a key of the filter set has a value only if the criteria of this
\* turn's reply hold the criterion it is derived from, and the filter set is
\* the one the same reply yields in a state that had no filters: nothing of
\* the filter set of an earlier turn is left.
C36_FiltersFromThisTurnOnly ==
    (ClassifyCalled /\ SearchOrFilterTurn(NodeOut)) =>
        /\ ~IsNone(NodeOut.search_filters)
        /\ \A key \in FilterKeys :
               ~IsNone(Get(NodeOut.search_filters)[key]) =>
                   Truthy(DictGet(CriteriaOf(NodeReply), CriterionOf(key), JNull))
        /\ NodeOut.search_filters =
               ClassifyIntentNode([NodeIn EXCEPT !.search_filters = None],
                                  NodeReply).search_filters

\* A turn taken for a search or filter turn in a state whose earlier filter
\* set had a category, a location and grade bounds, none of which this
\* turn's criteria set again.
C36_Witness ==
    /\ ClassifyCalled
    /\ SearchOrFilterTurn(NodeOut)
    /\ ~IsNone(NodeIn.search_filters)
    /\ LET earlier == Get(NodeIn.search_filters)
       IN  /\ TruthyText(earlier.category)
           /\ TruthyText(earlier.location)
           /\ ~IsNone(earlier.min_grade)
    /\ NodeOut.search_filters = Some(EmptyFilters)

(***************************************************************************)
(* The collector with answers inside and outside the ranges: a session is  *)
(* new, or the caller supplies a state whose address or distance is still  *)
(* to be asked.                                                            *)
(***************************************************************************)
MaxRangeTurns == 6

Text0 == <<"0">>
TextMinus1 == <<"-", "1">>

\* A word; a valid age, grade and distance; a distance that is neither a
\* valid age nor a valid grade; a grade that is no valid age and no valid
\* distance; a number valid for nothing.
RangeMsgs == {TextAl, Text10, Text25, Text0, TextMinus1}

InitRanges ==
    /\ session_states \in
        [SessionIds -> {None} \cup
                       {Some(ExistingState(sid, step)) :
                            sid \in SessionIds, step \in {"address", "distance"}}]
    /\ \A sid \in SessionIds :
           ~IsNone(session_states[sid]) => Get(session_states[sid]).session_id = sid
    /\ session_store = [sid \in SessionIds |-> None]
    /\ node_call = NoCall
    /\ in_flight = NoRequests
    /\ llm_manager = NewManager
    /\ llm_call = NoManagerCall

RangeTurn ==
    \E sid \in SessionIds, m \in RangeMsgs, categories \in CategoryResults,
       camps \in SearchResults :
        /\ Len(History(sid)) < MaxRangeTurns
        /\ ChatEndpoint(sid, m, categories, camps)

RangeNext == RangeTurn

SpecRanges == InitRanges /\ [][RangeNext]_vars

\* f > 0 read off the digits of f.
IsPositive(f) ==
    /\ ~f.neg
    /\ f.whole > 0 \/ \E i \in 1..Len(f.frac) : f.frac[i] # "0"

\* C37: whenever a session has a profile, at any cursor position, its
\* child_age is in [4,18], its child_grade in [0,12] and its
\* max_distance_miles is greater than 0.
C37_ProfileInRange ==
    \A sid \in SessionIds :
        (Started(sid) /\ ~IsNone(StateOf(sid).profile)) =>
            LET profile == Get(StateOf(sid).profile)
            IN  /\ profile.child_age \in 4..18
                /\ profile.child_grade \in 0..12
                /\ IsPositive(profile.max_distance_miles)

\* A session whose age answer 25 was refused and whose answers 10 and 10
\* replaced the default age and grade.
C37_Witness ==
    \E sid \in SessionIds :
        /\ Started(sid)
        /\ Len(History(sid)) = 6
        /\ History(sid)[4] = Text25
        /\ Cursor(StateOf(sid)) = "interests"
        /\ Get(StateOf(sid).profile).child_age = 10
        /\ Get(StateOf(sid).profile).child_grade = 10
        /\ Get(StateOf(sid).profile).max_distance_miles = Float(FALSE, 25, <<>>)

(***************************************************************************)
(* LLMManager.  An instance is named by its provider.  environ is the set  *)
(* of providers whose API key the environment holds when a method runs,    *)
(* constructed the providers whose client class can be built, working the  *)
(* providers whose client answers a call.                                  *)
(***************************************************************************)
Providers == {"openai", "gemini"}

\* What a method call leaves: the manager, the exception it raised ("none"
\* when it returned) and the value it returned.
Outcome(manager, raised, value) ==
    [manager |-> manager, raised |-> raised, value |-> value]

\* initialize setting the flag before it has looked at the instances.
InitializeMarksFirst(manager, environ, constructed) ==
    IF manager.initialized THEN Outcome(manager, "none", <<>>)
    ELSE LET instances == manager.llm_instances \cup (environ \cap constructed)
             filled == [llm_instances |-> instances, initialized |-> TRUE]
         IN  IF instances = {}
             THEN Outcome(filled, "ValueError", <<>>)
             ELSE Outcome(filled, "none", <<>>)

\* LLMManager.initialize: a provider is registered when its key is there
\* and its client can be built; a failing constructor is logged and skipped.
Initialize(manager, environ, constructed) ==
    IF manager.initialized THEN Outcome(manager, "none", <<>>)
    ELSE LET instances == manager.llm_instances \cup (environ \cap constructed)
             filled == [manager EXCEPT !.llm_instances = instances]
         IN  IF instances = {}
             THEN Outcome(filled, "ValueError", <<>>)
             ELSE Outcome([filled EXCEPT !.initialized = TRUE], "none", <<>>)

\* if not self._initialized: self.initialize()
EnsureInitialized(manager, environ, constructed) ==
    IF manager.initialized THEN Outcome(manager, "none", <<>>)
    ELSE Initialize(manager, environ, constructed)

\* LLMManager.get_llm
GetLlm(manager, provider, environ, constructed) ==
    LET ensured == EnsureInitialized(manager, environ, constructed)
    IN  IF ensured.raised # "none" THEN ensured
        ELSE IF provider \notin ensured.manager.llm_instances
        THEN Outcome(ensured.manager, "ValueError", <<>>)
        ELSE Outcome(ensured.manager, "none", <<provider>>)

\* list(self._llm_instances.keys()): openai is inserted before gemini.
ProviderList(instances) ==
    (IF "openai" \in instances THEN <<"openai">> ELSE <<>>)
        \o (IF "gemini" \in instances THEN <<"gemini">> ELSE <<>>)

\* LLMManager.get_available_providers
GetAvailableProviders(manager, environ, constructed) ==
    LET ensured == EnsureInitialized(manager, environ, constructed)
    IN  IF ensured.raised # "none" THEN ensured
        ELSE Outcome(ensured.manager, "none",
                     ProviderList(ensured.manager.llm_instances))

\* LLMManager.is_provider_available
IsProviderAvailable(manager, provider, environ, constructed) ==
    LET ensured == EnsureInitialized(manager, environ, constructed)
    IN  IF ensured.raised # "none" THEN ensured
        ELSE Outcome(ensured.manager, "none",
                     <<provider \in ensured.manager.llm_instances>>)

\* LLMManager.get_default_provider
GetDefaultProvider(manager, environ, constructed) ==
    LET ensured == EnsureInitialized(manager, environ, constructed)
        instances == ensured.manager.llm_instances
    IN  IF ensured.raised # "none" THEN ensured
        ELSE IF "openai" \in instances
        THEN Outcome(ensured.manager, "none", <<"openai">>)
        ELSE IF "gemini" \in instances
        THEN Outcome(ensured.manager, "none", <<"gemini">>)
        ELSE Outcome(ensured.manager, "ValueError", <<>>)

\* LLMManager.test_provider: every exception is caught and answered False.
TestProvider(manager, provider, environ, constructed, working) ==
    LET got == GetLlm(manager, provider, environ, constructed)
    IN  Outcome(got.manager, "none",
                <<got.raised = "none" /\ provider \in working>>)

\* LLMManager.get_provider_status: for openai, then gemini, whether it is
\* available and whether it is working.
GetProviderStatus(manager, environ, constructed, working) ==
    LET ensured == EnsureInitialized(manager, environ, constructed)
        instances == ensured.manager.llm_instances
        status(provider) ==
            [available |-> provider \in instances,
             working |-> /\ provider \in instances
                         /\ TestProvider(ensured.manager, provider, environ,
                                         constructed, working).value[1]]
    IN  IF ensured.raised # "none" THEN ensured
        ELSE Outcome(ensured.manager, "none",
                     <<status("openai"), status("gemini")>>)

\* LLMManager.reset
Reset(manager) == Outcome(NewManager, "none", <<>>)

\* One call of a method on the manager, with the environment it ran in.
ManagerCalled(op, provider, environ, outcome) ==
    /\ llm_manager' = outcome.manager
    /\ llm_call' = [op |-> op, provider |-> provider, environ |-> environ,
                    before |-> llm_manager, raised |-> outcome.raised,
                    value |-> outcome.value]
    /\ UNCHANGED <<session_states, session_store, node_call, in_flight>>

InitializeCall ==
    \E environ \in SUBSET Providers, constructed \in SUBSET Providers :
        ManagerCalled("initialize", "none", environ,
                      Initialize(llm_manager, environ, constructed))

GetLlmCall ==
    \E provider \in Providers, environ \in SUBSET Providers,
       constructed \in SUBSET Providers :
        ManagerCalled("get_llm", provider, environ,
                      GetLlm(llm_manager, provider, environ, constructed))

GetAvailableProvidersCall ==
    \E environ \in SUBSET Providers, constructed \in SUBSET Providers :
        ManagerCalled("get_available_providers", "none", environ,
                      GetAvailableProviders(llm_manager, environ, constructed))

IsProviderAvailableCall ==
    \E provider \in Providers, environ \in SUBSET Providers,
       constructed \in SUBSET Providers :
        ManagerCalled("is_provider_available", provider, environ,
                      IsProviderAvailable(llm_manager, provider, environ,
                                          constructed))

GetDefaultProviderCall ==
    \E environ \in SUBSET Providers, constructed \in SUBSET Providers :
        ManagerCalled("get_default_provider", "none", environ,
                      GetDefaultProvider(llm_manager, environ, constructed))

GetProviderStatusCall ==
    \E environ \in SUBSET Providers, constructed \in SUBSET Providers,
       working \in SUBSET Providers :
        ManagerCalled("get_provider_status", "none", environ,
                      GetProviderStatus(llm_manager, environ, constructed,
                                        working))

ResetCall ==
    \E environ \in SUBSET Providers :
        ManagerCalled("reset", "none", environ, Reset(llm_manager))

ManagerNext ==
    \/ InitializeCall
    \/ GetLlmCall
    \/ GetAvailableProvidersCall
    \/ IsProviderAvailableCall
    \/ GetDefaultProviderCall
    \/ GetProviderStatusCall
    \/ ResetCall

SpecManager == Init /\ [][ManagerNext]_vars

\* The accessors that initialize the manager when it is not initialized.
Accessors ==
    {"get_llm", "get_available_providers", "get_default_provider",
     "get_provider_status"}

\* C38: an initialized manager has at least one instance; initialize, and
\* every accessor called on an uninitialized manager, raises ValueError and
\* leaves the manager uninitialized when the environment holds no provider
\* key; get_llm raises ValueError for a provider that is not registered;
\* reset leaves no instances and the manager uninitialized.
C38_ManagerLifecycle ==
    /\ llm_manager.initialized => llm_manager.llm_instances # {}
    /\ (/\ llm_call.op \in Accessors \cup {"initialize"}
        /\ ~llm_call.before.initialized
        /\ llm_call.environ = {}) =>
            /\ llm_call.raised = "ValueError"
            /\ ~llm_manager.initialized
            /\ llm_manager.llm_instances = {}
    /\ (llm_call.op = "get_llm"
            /\ llm_call.provider \notin llm_manager.llm_instances) =>
            llm_call.raised = "ValueError"
    /\ llm_call.op = "reset" =>
            /\ llm_manager.llm_instances = {}
            /\ ~llm_manager.initialized

\* get_llm called for gemini on a manager that openai alone was registered
\* with, as in test_get_llm_provider_not_available.
C38_Witness ==
    /\ llm_call.op = "get_llm"
    /\ llm_call.provider = "gemini"
    /\ llm_call.before = [llm_instances |-> {"openai"}, initialized |-> TRUE]
    /\ llm_call.raised = "ValueError"
    /\ llm_manager = llm_call.before

====
